---- MODULE Spec2Model ----
(***************************************************************************)
(* Subscription / billing lifecycle of the EngageX backend                 *)
(* (backend/core): the Stripe webhook endpoint, the management actions,    *)
(* the scheduled expiry sweeps, the entitlement checks and the monthly     *)
(* usage ledger.  Time is counted in whole days.                           *)
(***************************************************************************)
EXTENDS Integers, Sequences, FiniteSets, TLC

\* ------------------------------------------------------------------ bounds
\* last day the clock reaches
MaxTime == 5
\* most SubscriptionHistory rows a behaviour writes
MaxHistory == 2
\* most SubscriptionHistory rows a subscriber's behaviour writes
MaxBillingHistory == 3
\* concurrent update_usage_tracking callers
NumCallers == 3
\* concurrent webhook deliveries
NumDeliveries == 2
\* invocations of the trial sweep that may run at the same time
NumSweepers == 2
\* last day the clock of the sweeps reaches
SweepDays == 15
\* most a monthly usage counter reaches through the gated requests
MaxUsage == 4
\* most limit warnings a behaviour of the usage-warning sweeps creates
MaxWarnings == 4
\* last day the clock of the usage-warning sweeps reaches
WarnDays == 3

\* --------------------------------------------------------- program constants
\* null of a DateTimeField
NoTime == -1
\* null of a CharField
None == "None"
TRIAL_DAYS == 14
GRACE_DAYS == 3
MONTHLY_DAYS == 30
YEARLY_DAYS == 365
DEFAULT_CONTACTS_LIMIT == 1000
DEFAULT_CAMPAIGNS_LIMIT == 10
DEFAULT_EMAILS_LIMIT == 10000

\* SubscriptionPlan
FREE_TRIAL == "free_trial"
BASIC_MONTHLY == "basic_monthly"
BASIC_YEARLY == "basic_yearly"
PRO_MONTHLY == "pro_monthly"
PRO_YEARLY == "pro_yearly"
PREMIUM_MONTHLY == "premium_monthly"
PREMIUM_YEARLY == "premium_yearly"

\* SubscriptionStatus
ACTIVE == "active"
PAST_DUE == "past_due"
CANCELED == "canceled"
TRIALING == "trialing"
SubscriptionStatus == {ACTIVE, PAST_DUE, CANCELED, TRIALING}

\* the plans of PLAN_CONFIG in the order the dict lists them
PlanOrder ==
  <<FREE_TRIAL, BASIC_MONTHLY, BASIC_YEARLY, PRO_MONTHLY, PRO_YEARLY,
    PREMIUM_MONTHLY, PREMIUM_YEARLY>>

Plans == {PlanOrder[i] : i \in 1..Len(PlanOrder)}

\* PLAN_CONFIG: the price reference and the limits of every plan; the price
\* references are the configured STRIPE_PRICE_* settings
PLAN_CONFIG ==
  (FREE_TRIAL :> [stripe_price_id |-> None, contacts_limit |-> 1000, campaigns_limit |-> 10])
  @@ (BASIC_MONTHLY :> [stripe_price_id |-> "price_basic_monthly", contacts_limit |-> 5000, campaigns_limit |-> 50])
  @@ (BASIC_YEARLY :> [stripe_price_id |-> "price_basic_yearly", contacts_limit |-> 5000, campaigns_limit |-> 50])
  @@ (PRO_MONTHLY :> [stripe_price_id |-> "price_pro_monthly", contacts_limit |-> 25000, campaigns_limit |-> 200])
  @@ (PRO_YEARLY :> [stripe_price_id |-> "price_pro_yearly", contacts_limit |-> 25000, campaigns_limit |-> 200])
  @@ (PREMIUM_MONTHLY :> [stripe_price_id |-> "price_premium_monthly", contacts_limit |-> 100000, campaigns_limit |-> 1000])
  @@ (PREMIUM_YEARLY :> [stripe_price_id |-> "price_premium_yearly", contacts_limit |-> 100000, campaigns_limit |-> 1000])

\* get_plan_from_price_id: the first plan, in dict order, whose price
\* reference is price_id; None when there is none
RECURSIVE PlanScan(_, _)
PlanScan(i, price_id) ==
  IF i > Len(PlanOrder) THEN None
  ELSE IF PLAN_CONFIG[PlanOrder[i]].stripe_price_id = price_id THEN PlanOrder[i]
  ELSE PlanScan(i + 1, price_id)

get_plan_from_price_id(price_id) == PlanScan(1, price_id)

\* 'yearly' in plan_id
IsYearly(plan_id) == plan_id \in {BASIC_YEARLY, PRO_YEARLY, PREMIUM_YEARLY}

\* 'basic' in plan.lower()
IsBasic(plan_id) == plan_id \in {BASIC_MONTHLY, BASIC_YEARLY}

\* str.upper() on the four status strings Stripe and the model share
Upper(s) ==
  CASE s = "active" -> "ACTIVE"
    [] s = "past_due" -> "PAST_DUE"
    [] s = "canceled" -> "CANCELED"
    [] s = "trialing" -> "TRIALING"
    [] OTHER -> s


\* ------------------------------------------------------------------- state
VARIABLES
  now,          \* the clock, in days
  org_created,  \* the organizations table holds the organization's row
  org,          \* the organization's row
  history,      \* the subscription_history table, in insertion order
  last,         \* the last request or job: what it was and how it answered
  deliveries,   \* the webhook deliveries in progress, each at its statement
  usage,        \* the usage_tracking row of the organization's current month
  callers,      \* the calls of update_usage_tracking in progress
  check,        \* a call of check_usage_limit: its arguments and its result
  sweepers,     \* the invocations of check_trial_expirations, each at its statement
  notifications, \* the subscription_notifications rows the sweeps have created
  ledger,       \* the usage_tracking rows of the organization, month by month
  stored        \* how many contacts and campaigns the organization has

lifecycle_vars == <<now, org_created, org, history, last>>
race_vars == <<deliveries>>
usage_vars == <<usage, callers>>
check_vars == <<check>>
sweep_vars == <<sweepers, notifications>>
ledger_vars == <<ledger, stored>>

\* an organization with no contact and no campaign
NoStored == [contacts |-> 0, campaigns |-> 0]

\* SubscriptionEventType
EV_CREATED == "created"
EV_UPDATED == "updated"
EV_CANCELED == "canceled"
EV_PAYMENT_SUCCEEDED == "payment_succeeded"
EV_PAYMENT_FAILED == "payment_failed"
EV_TRIAL_STARTED == "trial_started"
EV_TRIAL_ENDED == "trial_ended"
EV_PLAN_CHANGED == "plan_changed"

\* Organization: the field defaults of the model class
OrganizationDefaults ==
  [subscription_plan |-> FREE_TRIAL,
   subscription_status |-> TRIALING,
   trial_ends_at |-> NoTime,
   subscription_ends_at |-> NoTime,
   current_period_end |-> NoTime,
   cancel_at_period_end |-> FALSE,
   stripe_customer_id |-> None,
   stripe_subscription_id |-> None,
   stripe_price_id |-> None,
   contacts_limit |-> DEFAULT_CONTACTS_LIMIT,
   campaigns_limit |-> DEFAULT_CAMPAIGNS_LIMIT,
   emails_per_month_limit |-> DEFAULT_EMAILS_LIMIT,
   is_subscription_active |-> TRUE]

\* SubscriptionHistory: one row; the fields no caller passes are null
HistoryRow(event_type, stripe_event_id, old_plan, new_plan, old_status, new_status) ==
  [event_type |-> event_type,
   stripe_event_id |-> stripe_event_id,
   old_plan |-> old_plan,
   new_plan |-> new_plan,
   old_status |-> old_status,
   new_status |-> new_status,
   payment_method_last4 |-> None]

\* the check made against processed_webhook_events, the module's set that
\* nothing adds to
EventInProcessedSet(h, event_id) == event_id \in {}

\* SubscriptionHistory.objects.filter(stripe_event_id=event_id).exists()
EventAlreadyLogged(h, event_id) ==
  \E i \in 1..Len(h) : h[i].stripe_event_id = event_id

\* what a handler leaves behind: the row it saved, the history rows it
\* created, and whether it raised
Outcome(o, rows, raised) == [org |-> o, rows |-> rows, raised |-> raised]

\* Organization.DoesNotExist, an unknown price: nothing is written
NoChange(o) == Outcome(o, <<>>, FALSE)


\* ------------------------------------------------------- stripe_webhook
\* Organization.objects.get(stripe_customer_id=...)
FoundByCustomer(exists, o, customer_id) ==
  exists /\ o.stripe_customer_id = customer_id

\* Organization.objects.get(stripe_subscription_id=...)
FoundBySubscription(exists, o, subscription_id) ==
  exists /\ o.stripe_subscription_id = subscription_id

\* customer.subscription.created with the copy of the plan's limits left out
HandleSubscriptionCreated_NoLimits(exists, o, ev) ==
  IF ~FoundByCustomer(exists, o, ev.customer) THEN NoChange(o)
  ELSE LET new_plan == get_plan_from_price_id(ev.price) IN
    IF new_plan = None THEN NoChange(o)
    ELSE Outcome(
      [o EXCEPT !.stripe_subscription_id = ev.subscription,
                !.subscription_plan = new_plan,
                !.subscription_status = ACTIVE,
                !.is_subscription_active = TRUE,
                !.stripe_price_id = ev.price,
                !.current_period_end = ev.current_period_end],
      <<HistoryRow(EV_CREATED, ev.id, None, new_plan, None, ACTIVE)>>,
      FALSE)

\* customer.subscription.created
HandleSubscriptionCreated(exists, o, ev) ==
  IF ~FoundByCustomer(exists, o, ev.customer) THEN NoChange(o)
  ELSE LET new_plan == get_plan_from_price_id(ev.price) IN
    IF new_plan = None THEN NoChange(o)
    ELSE Outcome(
      [o EXCEPT !.stripe_subscription_id = ev.subscription,
                !.subscription_plan = new_plan,
                !.subscription_status = ACTIVE,
                !.contacts_limit = PLAN_CONFIG[new_plan].contacts_limit,
                !.campaigns_limit = PLAN_CONFIG[new_plan].campaigns_limit,
                !.is_subscription_active = TRUE,
                !.stripe_price_id = ev.price,
                !.current_period_end = ev.current_period_end],
      <<HistoryRow(EV_CREATED, ev.id, None, new_plan, None, ACTIVE)>>,
      FALSE)

\* customer.subscription.updated
HandleSubscriptionUpdated(exists, o, ev) ==
  IF ~FoundBySubscription(exists, o, ev.subscription) THEN NoChange(o)
  ELSE LET old_plan == o.subscription_plan
           old_status == o.subscription_status
           new_plan == get_plan_from_price_id(ev.price)
           changed == new_plan # None /\ new_plan # old_plan
           o1 == IF changed
                 THEN [o EXCEPT !.subscription_plan = new_plan,
                                !.contacts_limit = PLAN_CONFIG[new_plan].contacts_limit,
                                !.campaigns_limit = PLAN_CONFIG[new_plan].campaigns_limit,
                                !.stripe_price_id = ev.price]
                 ELSE o
           new_status == IF ev.status \in {"active", "past_due", "canceled", "trialing"}
                         THEN Upper(ev.status) ELSE ACTIVE
           o2 == [o1 EXCEPT !.subscription_status = new_status,
                            !.current_period_end = ev.current_period_end,
                            !.cancel_at_period_end = ev.cancel_at_period_end]
       IN Outcome(
            o2,
            <<HistoryRow(IF new_plan = old_plan THEN EV_UPDATED ELSE EV_PLAN_CHANGED,
                         ev.id, old_plan,
                         IF new_plan # None THEN new_plan ELSE old_plan,
                         old_status, new_status)>>,
            FALSE)

\* customer.subscription.deleted
HandleSubscriptionDeleted(exists, o, ev, t) ==
  IF ~FoundBySubscription(exists, o, ev.subscription) THEN NoChange(o)
  ELSE Outcome(
    [o EXCEPT !.is_subscription_active = FALSE,
              !.subscription_status = CANCELED,
              !.subscription_plan = FREE_TRIAL,
              !.trial_ends_at = t + TRIAL_DAYS,
              !.contacts_limit = 1000,
              !.campaigns_limit = 10,
              !.cancel_at_period_end = FALSE],
    <<HistoryRow(EV_CANCELED, ev.id, o.subscription_plan, FREE_TRIAL, ACTIVE, CANCELED)>>,
    FALSE)

\* invoice.payment_succeeded with the organization saved and the history row
\* created before stripe.PaymentIntent.retrieve is called
HandlePaymentSucceeded_LogFirst(exists, o, ev, pi_ok) ==
  IF ev.subscription = None THEN NoChange(o)
  ELSE IF ~FoundBySubscription(exists, o, ev.subscription) THEN NoChange(o)
  ELSE Outcome(
    [o EXCEPT !.is_subscription_active = TRUE,
              !.subscription_status = ACTIVE],
    <<HistoryRow(EV_PAYMENT_SUCCEEDED, ev.id, None, None, None, None)>>,
    ev.payment_intent /\ ~pi_ok)

\* invoice.payment_succeeded that marks the organization active and leaves
\* its status
HandlePaymentSucceeded_FlagOnly(exists, o, ev, pi_ok) ==
  IF ev.subscription = None THEN NoChange(o)
  ELSE IF ~FoundBySubscription(exists, o, ev.subscription) THEN NoChange(o)
  ELSE IF ev.payment_intent /\ ~pi_ok THEN Outcome(o, <<>>, TRUE)
  ELSE Outcome(
    [o EXCEPT !.is_subscription_active = TRUE],
    <<HistoryRow(EV_PAYMENT_SUCCEEDED, ev.id, None, None, None, None)>>,
    FALSE)

\* invoice.payment_succeeded; pi_ok: stripe.PaymentIntent.retrieve answered
HandlePaymentSucceeded(exists, o, ev, pi_ok) ==
  IF ev.subscription = None THEN NoChange(o)
  ELSE IF ~FoundBySubscription(exists, o, ev.subscription) THEN NoChange(o)
  ELSE IF ev.payment_intent /\ ~pi_ok THEN Outcome(o, <<>>, TRUE)
  ELSE Outcome(
    [o EXCEPT !.is_subscription_active = TRUE,
              !.subscription_status = ACTIVE],
    <<HistoryRow(EV_PAYMENT_SUCCEEDED, ev.id, None, None, None, None)>>,
    FALSE)

\* invoice.payment_failed with Organization.DoesNotExist left to reach the
\* view's except
HandlePaymentFailed_Uncaught(exists, o, ev, t) ==
  IF ev.subscription = None THEN NoChange(o)
  ELSE IF ~FoundBySubscription(exists, o, ev.subscription) THEN Outcome(o, <<>>, TRUE)
  ELSE Outcome(
    [o EXCEPT !.subscription_status = PAST_DUE,
              !.subscription_ends_at =
                 IF o.subscription_ends_at = NoTime \/ o.subscription_ends_at > t
                 THEN t + GRACE_DAYS ELSE o.subscription_ends_at],
    <<HistoryRow(EV_PAYMENT_FAILED, ev.id, None, None, None, None)>>,
    FALSE)

\* invoice.payment_failed
HandlePaymentFailed(exists, o, ev, t) ==
  IF ev.subscription = None THEN NoChange(o)
  ELSE IF ~FoundBySubscription(exists, o, ev.subscription) THEN NoChange(o)
  ELSE Outcome(
    [o EXCEPT !.subscription_status = PAST_DUE,
              !.subscription_ends_at =
                 IF o.subscription_ends_at = NoTime \/ o.subscription_ends_at > t
                 THEN t + GRACE_DAYS ELSE o.subscription_ends_at],
    <<HistoryRow(EV_PAYMENT_FAILED, ev.id, None, None, None, None)>>,
    FALSE)

\* customer.subscription.trial_will_end
HandleTrialWillEnd(exists, o, ev) ==
  IF ~FoundBySubscription(exists, o, ev.subscription) THEN NoChange(o)
  ELSE Outcome(o, <<HistoryRow(EV_TRIAL_ENDED, ev.id, None, None, None, None)>>, FALSE)

\* the dispatch with a type the endpoint does not handle treated as an error
Dispatch_RejectsUnhandled(exists, o, ev, t, pi_ok) ==
  CASE ev.type = "customer.subscription.created" -> HandleSubscriptionCreated(exists, o, ev)
    [] ev.type = "customer.subscription.updated" -> HandleSubscriptionUpdated(exists, o, ev)
    [] ev.type = "customer.subscription.deleted" -> HandleSubscriptionDeleted(exists, o, ev, t)
    [] ev.type = "invoice.payment_succeeded" -> HandlePaymentSucceeded(exists, o, ev, pi_ok)
    [] ev.type = "invoice.payment_failed" -> HandlePaymentFailed(exists, o, ev, t)
    [] ev.type = "customer.subscription.trial_will_end" -> HandleTrialWillEnd(exists, o, ev)
    [] OTHER -> Outcome(o, <<>>, TRUE)

\* the dispatch on event['type']; any other type is logged and ignored
Dispatch(exists, o, ev, t, pi_ok) ==
  CASE ev.type = "customer.subscription.created" -> HandleSubscriptionCreated(exists, o, ev)
    [] ev.type = "customer.subscription.updated" -> HandleSubscriptionUpdated(exists, o, ev)
    [] ev.type = "customer.subscription.deleted" -> HandleSubscriptionDeleted(exists, o, ev, t)
    [] ev.type = "invoice.payment_succeeded" -> HandlePaymentSucceeded(exists, o, ev, pi_ok)
    [] ev.type = "invoice.payment_failed" -> HandlePaymentFailed(exists, o, ev, t)
    [] ev.type = "customer.subscription.trial_will_end" -> HandleTrialWillEnd(exists, o, ev)
    [] OTHER -> NoChange(o)


\* the answer of a request or job
Answer(op, id, resp) == [op |-> op, id |-> id, resp |-> resp]

\* ---------------------------------------------------- inputs of the webhook
EventIds == {"evt_1", "evt_2"}
\* cus_1 is the customer Stripe created for the organization
CustomerIds == {"cus_1", "cus_2"}
SubscriptionIds == {"sub_1", "sub_2"}
\* every price reference of the catalog, and one that is not in it
CatalogPrices == {PLAN_CONFIG[p].stripe_price_id : p \in Plans \ {FREE_TRIAL}}
EventPrices == CatalogPrices \cup {"price_unknown"}
\* the prices subscription.updated events carry
UpdatedPrices == {"price_basic_monthly", "price_pro_yearly", "price_unknown"}
\* days from the delivery to the subscription's current_period_end
PeriodOffsets == {1}
\* the plan a management request names
RequestPlans == {FREE_TRIAL, BASIC_YEARLY, PREMIUM_MONTHLY}

Event(id, type, customer, subscription, price, status, cpe, cape, pi) ==
  [id |-> id, type |-> type, customer |-> customer, subscription |-> subscription,
   price |-> price, status |-> status, current_period_end |-> cpe,
   cancel_at_period_end |-> cape, payment_intent |-> pi]

\* customer.subscription.created for the organization's customer with every
\* price, and for a customer no organization has
CreatedEvents(t) ==
  {Event(id, "customer.subscription.created", "cus_1", "sub_1", p, "active", t + d, FALSE, FALSE) :
     id \in EventIds, p \in EventPrices, d \in PeriodOffsets}
  \cup
  {Event(id, "customer.subscription.created", "cus_2", "sub_2", "price_pro_monthly", "active",
         t + d, FALSE, FALSE) : id \in EventIds, d \in PeriodOffsets}

\* the status and cancel_at_period_end a subscription.updated event carries
UpdatedShapes ==
  {<<"active", FALSE>>, <<"active", TRUE>>, <<"past_due", FALSE>>, <<"canceled", FALSE>>,
   <<"incomplete", FALSE>>}

UpdatedEvents(t) ==
  {Event(id, "customer.subscription.updated", "cus_1", "sub_1", p, sh[1], t + d, sh[2], FALSE) :
     id \in EventIds, p \in UpdatedPrices, sh \in UpdatedShapes, d \in PeriodOffsets}

DeletedEventsOf(ids, t) ==
  {Event(id, "customer.subscription.deleted", "cus_1", s, None, "canceled", t, FALSE, FALSE) :
     id \in ids, s \in SubscriptionIds}

DeletedEvents(t) == DeletedEventsOf(EventIds, t)

\* invoice.payment_succeeded, with and without a payment intent
SucceededEventsOf(ids, t) ==
  {Event(id, "invoice.payment_succeeded", "cus_1", s, None, "active", t, FALSE, pi) :
     id \in ids, s \in SubscriptionIds \cup {None}, pi \in BOOLEAN}

SucceededEvents(t) == SucceededEventsOf(EventIds, t)

FailedEventsOf(ids, t) ==
  {Event(id, "invoice.payment_failed", "cus_1", s, None, "active", t, FALSE, FALSE) :
     id \in ids, s \in SubscriptionIds \cup {None}}

FailedEvents(t) == FailedEventsOf(EventIds, t)

\* customer.subscription.trial_will_end, and a type the endpoint does not handle
OtherEvents(t) ==
  {Event(id, "customer.subscription.trial_will_end", "cus_1", s, None, "trialing", t, FALSE, FALSE) :
     id \in EventIds, s \in SubscriptionIds}
  \cup
  {Event(id, "charge.succeeded", "cus_1", "sub_1", None, "active", t, FALSE, FALSE) :
     id \in EventIds}

Events(t) ==
  CreatedEvents(t) \cup UpdatedEvents(t) \cup DeletedEvents(t) \cup SucceededEvents(t)
  \cup FailedEvents(t) \cup OtherEvents(t)

\* the HTTP status of the endpoint's answers: JsonResponse(..., status=400) on
\* a bad payload or signature, status=500 from the handlers' except clause,
\* 200 otherwise
HttpStatus(resp) ==
  CASE resp = "invalid_signature" -> 400
    [] resp = "processing_failed" -> 500
    [] OTHER -> 200

\* stripe_webhook with the event handled before its signature is looked at
StripeWebhook_VerifyLast(ev, sig_ok, pi_ok) ==
  /\ IF EventAlreadyLogged(history, ev.id)
     THEN /\ last' = Answer("stripe_webhook", ev.id, "duplicate")
          /\ UNCHANGED <<org, history>>
     ELSE LET r == Dispatch(org_created, org, ev, now, pi_ok) IN
          /\ org' = r.org
          /\ history' = history \o r.rows
          /\ last' = IF ~sig_ok THEN Answer("stripe_webhook", None, "invalid_signature")
                     ELSE Answer("stripe_webhook", ev.id,
                                 IF r.raised THEN "processing_failed" ELSE "success")
  /\ UNCHANGED <<now, org_created>>

\* stripe_webhook, one delivery from the signature check to the response
StripeWebhook(ev, sig_ok, pi_ok) ==
  /\ IF ~sig_ok
     THEN /\ last' = Answer("stripe_webhook", None, "invalid_signature")
          /\ UNCHANGED <<org, history>>
     ELSE IF EventAlreadyLogged(history, ev.id)
     THEN /\ last' = Answer("stripe_webhook", ev.id, "duplicate")
          /\ UNCHANGED <<org, history>>
     ELSE LET r == Dispatch(org_created, org, ev, now, pi_ok) IN
          /\ org' = r.org
          /\ history' = history \o r.rows
          /\ last' = Answer("stripe_webhook", ev.id, IF r.raised THEN "processing_failed" ELSE "success")
  /\ UNCHANGED <<now, org_created>>


\* ----------------------------------------------- creation of the organization
\* what create_account and the invitation signup pass to
\* Organization.objects.create: the trial plan and a trial of 14 days
SignupData(t) ==
  [subscription_plan |-> FREE_TRIAL,
   trial_ends_at |-> t + TRIAL_DAYS,
   contacts_limit |-> DEFAULT_CONTACTS_LIMIT,
   campaigns_limit |-> DEFAULT_CAMPAIGNS_LIMIT]

\* Organization.objects.create(**data): the row is inserted with the supplied
\* fields over the field defaults.  With no trial_ends_at the post_save
\* receiver activate_trial_on_organization_creation writes the trial over the
\* row and then fails on SubscriptionHistory.objects.create(plan=...), a field
\* the model does not have; the insert and the receiver's save stay committed
CreateOrganization(data) ==
  /\ ~org_created
  /\ org_created' = TRUE
  /\ LET row == [OrganizationDefaults EXCEPT
                   !.subscription_plan = data.subscription_plan,
                   !.trial_ends_at = data.trial_ends_at,
                   !.contacts_limit = data.contacts_limit,
                   !.campaigns_limit = data.campaigns_limit]
     IN IF data.trial_ends_at # NoTime
        THEN /\ org' = row
             /\ last' = Answer("create_organization", None, "created")
        ELSE /\ org' = [row EXCEPT
                          !.trial_ends_at = now + TRIAL_DAYS,
                          !.current_period_end = now + TRIAL_DAYS,
                          !.subscription_plan = FREE_TRIAL,
                          !.subscription_status = TRIALING,
                          !.is_subscription_active = TRUE,
                          !.contacts_limit = 1000,
                          !.campaigns_limit = 10,
                          !.emails_per_month_limit = 10000]
             /\ last' = Answer("create_organization", None, "type_error")
  /\ UNCHANGED <<now, history>>

\* OrganizationViewSet.partial_update: OrganizationSerializer writes the fields
\* of the request over the row; subscription_plan, trial_ends_at,
\* contacts_limit and campaigns_limit are writable fields of the serializer
UpdateOrganization(data) ==
  /\ org_created
  /\ org' = [f \in DOMAIN org |-> IF f \in DOMAIN data THEN data[f] ELSE org[f]]
  /\ last' = Answer("update_organization", None, "ok")
  /\ UNCHANGED <<now, org_created, history>>

\* ------------------------------------------------------ management actions
\* create_checkout_session: the Stripe customer is created on first use
CreateCheckoutSession(customer_ok, session_ok) ==
  /\ org_created
  /\ IF org.stripe_customer_id = None /\ ~customer_ok
     THEN /\ last' = Answer("create_checkout_session", None, "error")
          /\ UNCHANGED org
     ELSE /\ org' = IF org.stripe_customer_id = None
                    THEN [org EXCEPT !.stripe_customer_id = "cus_1"] ELSE org
          /\ last' = Answer("create_checkout_session", None, IF session_ok THEN "ok" ELSE "error")
  /\ UNCHANGED <<now, org_created, history>>

\* manage_subscription, action upgrade or downgrade; with no subscription id
\* stripe.Subscription.retrieve raises
ManagePlanChange(o, new_plan_id, remote_ok) ==
  IF o.stripe_subscription_id = None \/ ~remote_ok
  THEN [out |-> NoChange(o), resp |-> "stripe_error"]
  ELSE [out |-> Outcome(
          [o EXCEPT !.subscription_plan = new_plan_id,
                    !.contacts_limit = PLAN_CONFIG[new_plan_id].contacts_limit,
                    !.campaigns_limit = PLAN_CONFIG[new_plan_id].campaigns_limit,
                    !.stripe_price_id = PLAN_CONFIG[new_plan_id].stripe_price_id],
          <<HistoryRow(EV_PLAN_CHANGED, None, o.subscription_plan, new_plan_id, None, None)>>,
          FALSE),
        resp |-> "ok"]

\* manage_subscription, action cancel, with the organization saved before
\* stripe.Subscription.modify is called
ManageCancel_SaveFirst(o, immediate, remote_ok, t) ==
  LET o1 == [o EXCEPT !.cancel_at_period_end = TRUE]
      o2 == IF immediate
            THEN [o1 EXCEPT !.is_subscription_active = FALSE,
                            !.subscription_ends_at = t]
            ELSE o1
  IN IF ~remote_ok THEN [out |-> Outcome(o2, <<>>, FALSE), resp |-> "stripe_error"]
     ELSE [out |-> Outcome(o2,
             <<HistoryRow(EV_CANCELED, None, o.subscription_plan, None, None, None)>>, FALSE),
           resp |-> "ok"]

\* manage_subscription, action cancel
ManageCancel(o, immediate, remote_ok, t) ==
  IF ~remote_ok THEN [out |-> NoChange(o), resp |-> "stripe_error"]
  ELSE LET o1 == [o EXCEPT !.cancel_at_period_end = TRUE]
           o2 == IF immediate
                 THEN [o1 EXCEPT !.is_subscription_active = FALSE,
                                 !.subscription_ends_at = t]
                 ELSE o1
       IN [out |-> Outcome(o2,
             <<HistoryRow(EV_CANCELED, None, o.subscription_plan, None, None, None)>>, FALSE),
           resp |-> "ok"]

\* manage_subscription, action resume
ManageResume(o, remote_ok) ==
  IF ~remote_ok THEN [out |-> NoChange(o), resp |-> "stripe_error"]
  ELSE [out |-> Outcome([o EXCEPT !.cancel_at_period_end = FALSE],
          <<HistoryRow(EV_UPDATED, None, None, o.subscription_plan, None, None)>>, FALSE),
        resp |-> "ok"]

\* manage_subscription; the request is answered 400 before anything is called
\* or written when the action is unknown, when there is no subscription and
\* the action is not upgrade, when the plan is unknown, and when a resume finds
\* no cancellation scheduled
ManageSubscription(action, new_plan_id, immediate, remote_ok) ==
  /\ org_created
  /\ action \in {"upgrade", "downgrade", "cancel", "resume"}
  /\ ~(org.stripe_subscription_id = None /\ action # "upgrade")
  /\ action \in {"upgrade", "downgrade"} => new_plan_id \in Plans
  /\ action = "resume" => org.cancel_at_period_end
  /\ LET r == IF action \in {"upgrade", "downgrade"}
              THEN ManagePlanChange(org, new_plan_id, remote_ok)
              ELSE IF action = "cancel"
              THEN ManageCancel(org, immediate, remote_ok, now)
              ELSE ManageResume(org, remote_ok)
     IN /\ org' = r.out.org
        /\ history' = history \o r.out.rows
        /\ last' = Answer("manage_subscription", None, r.resp)
  /\ UNCHANGED <<now, org_created>>

\* cancel_subscription: always at the period end; answered 400 at once when
\* there is no subscription
CancelSubscription(remote_ok) ==
  /\ org_created
  /\ org.stripe_subscription_id # None
  /\ IF ~remote_ok
     THEN /\ last' = Answer("cancel_subscription", None, "stripe_error")
          /\ UNCHANGED <<org, history>>
     ELSE /\ org' = [org EXCEPT !.cancel_at_period_end = TRUE]
          /\ history' = Append(history,
               HistoryRow(EV_CANCELED, None, org.subscription_plan, None, None, None))
          /\ last' = Answer("cancel_subscription", None, "ok")
  /\ UNCHANGED <<now, org_created>>

\* create_subscription; subscription_id: the id Stripe gives the subscription;
\* an unknown plan and the free trial are answered 400 at once
CreateSubscription(plan_id, customer_ok, subscription_ok, subscription_id) ==
  /\ org_created
  /\ plan_id \in Plans /\ plan_id # FREE_TRIAL
  /\ IF org.stripe_customer_id = None /\ ~customer_ok
     THEN /\ last' = Answer("create_subscription", None, "error")
          /\ UNCHANGED <<org, history>>
     ELSE LET o1 == IF org.stripe_customer_id = None
                    THEN [org EXCEPT !.stripe_customer_id = "cus_1"] ELSE org
          IN IF ~subscription_ok
             THEN /\ org' = o1
                  /\ last' = Answer("create_subscription", None, "stripe_error")
                  /\ UNCHANGED history
             ELSE /\ org' = [o1 EXCEPT
                       !.stripe_subscription_id = subscription_id,
                       !.subscription_plan = plan_id,
                       !.contacts_limit = PLAN_CONFIG[plan_id].contacts_limit,
                       !.campaigns_limit = PLAN_CONFIG[plan_id].campaigns_limit,
                       !.is_subscription_active = TRUE,
                       !.stripe_price_id = PLAN_CONFIG[plan_id].stripe_price_id,
                       !.subscription_ends_at =
                          now + (IF IsYearly(plan_id) THEN YEARLY_DAYS ELSE MONTHLY_DAYS)]
                  /\ history' = Append(history,
                       HistoryRow(EV_CREATED, None, None, plan_id, None, ACTIVE))
                  /\ last' = Answer("create_subscription", None, "ok")
  /\ UNCHANGED <<now, org_created>>

\* ------------------------------------------------------ entitlement checks
\* check_subscription_active
check_subscription_active(o, t) ==
  IF o.subscription_status \in {CANCELED, PAST_DUE} THEN FALSE
  ELSE IF o.subscription_plan = FREE_TRIAL
  THEN IF o.trial_ends_at # NoTime /\ t > o.trial_ends_at THEN FALSE
       ELSE o.is_subscription_active
  ELSE IF o.subscription_ends_at # NoTime /\ t > o.subscription_ends_at THEN FALSE
       ELSE o.is_subscription_active

\* SubscriptionAccessMiddleware._is_subscription_expired
is_subscription_expired(o, t) ==
  IF o.subscription_plan = FREE_TRIAL
  THEN o.trial_ends_at # NoTime /\ t > o.trial_ends_at
  ELSE o.subscription_ends_at # NoTime /\ t > o.subscription_ends_at

\* SubscriptionAccessMiddleware.process_request for an authenticated member's
\* request to a protected endpoint: the request is let through (None) unless
\* the subscription is expired or not marked active (402)
SubscriptionAccessAllows(o, t) ==
  ~(is_subscription_expired(o, t) \/ ~o.is_subscription_active)

\* ----------------------------------------------------------- scheduled sweep
\* tasks.check_trial_expirations, the scan for expired trials
SweepExpiredTrial(exists, o, t) ==
  IF /\ exists
     /\ o.subscription_plan = FREE_TRIAL
     /\ o.trial_ends_at # NoTime /\ o.trial_ends_at < t
     /\ o.is_subscription_active
  THEN [o EXCEPT !.is_subscription_active = FALSE, !.subscription_status = CANCELED]
  ELSE o

\* tasks.check_subscription_expirations, the scan for expired subscriptions
SweepExpiredSubscription(exists, o, t) ==
  IF /\ exists
     /\ o.subscription_ends_at # NoTime /\ o.subscription_ends_at < t
     /\ o.is_subscription_active
     /\ o.subscription_plan # FREE_TRIAL
  THEN [o EXCEPT !.is_subscription_active = FALSE, !.subscription_status = CANCELED]
  ELSE o

\* tasks.check_trial_expirations
CheckTrialExpirations ==
  /\ org' = SweepExpiredTrial(org_created, org, now)
  /\ last' = Answer("check_trial_expirations", None, IF org' # org THEN "expired" ELSE "none")
  /\ UNCHANGED <<now, org_created, history>>

\* tasks.check_subscription_expirations
CheckSubscriptionExpirations ==
  /\ org' = SweepExpiredSubscription(org_created, org, now)
  /\ last' = Answer("check_subscription_expirations", None, IF org' # org THEN "expired" ELSE "none")
  /\ UNCHANGED <<now, org_created, history>>

\* Command.check_subscription_expirations of the start_scheduler command, the
\* scan for expired subscriptions: the organizations it selects
SchedulerSelectsExpired(exists, o, t) ==
  /\ exists
  /\ o.subscription_ends_at # NoTime /\ o.subscription_ends_at < t
  /\ o.is_subscription_active
  /\ o.subscription_plan # FREE_TRIAL

\* Command.check_subscription_expirations: for a selected organization the
\* first statement, org.subscription_status = SubscriptionStatus.EXPIRED,
\* raises AttributeError (the enumeration has no EXPIRED); the loop's except
\* logs it, nothing is assigned and nothing is saved
SchedulerCheckSubscriptionExpirations ==
  /\ org' = org
  /\ last' = Answer("scheduler_check_subscription_expirations", None,
                    IF SchedulerSelectsExpired(org_created, org, now)
                    THEN "attribute_error" ELSE "none")
  /\ UNCHANGED <<now, org_created, history>>

\* a day passes
Tick ==
  /\ now' = now + 1
  /\ UNCHANGED <<org_created, org, history, last>>

\* --------------------------------- check_trial_expirations, statement by statement
Sweepers == 1..NumSweepers

\* NotificationType
TRIAL_ENDING == "trial_ending"
SUBSCRIPTION_CANCELED == "subscription_canceled"

\* the days before the end of a trial on which a reminder is due
ReminderThresholds == <<7, 1>>

\* an invocation that is not running
NoSweep == [pc |-> "idle", now |-> NoTime, scan |-> 0, org |-> OrganizationDefaults]

\* SubscriptionNotification: the e-mail row create_notification inserts
Notification(type, days_remaining, t) ==
  [notification_type |-> type, days_remaining |-> days_remaining, created_at |-> t]

\* send_trial_expiry_reminder: a TRIAL_ENDING row of the organization with
\* this days_remaining was created within the last 24 hours
RecentReminder(rows, days_remaining, t) ==
  \E i \in 1..Len(rows) :
    /\ rows[i].notification_type = TRIAL_ENDING
    /\ rows[i].created_at >= t - 1
    /\ rows[i].days_remaining = days_remaining

\* the filter of the reminder scans: a trial that ends on the date
\* days_remaining days after the run's now, still marked active
DueForReminder(exists, o, t, days_remaining) ==
  /\ exists
  /\ o.subscription_plan = FREE_TRIAL
  /\ o.trial_ends_at = t + days_remaining
  /\ o.is_subscription_active

\* the filter of the scan for expired trials
TrialExpired(exists, o, t) ==
  /\ exists
  /\ o.subscription_plan = FREE_TRIAL
  /\ o.trial_ends_at # NoTime /\ o.trial_ends_at < t
  /\ o.is_subscription_active

\* check_trial_expirations is entered: now = timezone.now()
StartSweep(s) ==
  /\ sweepers[s].pc = "idle"
  /\ sweepers' = [sweepers EXCEPT ![s] = [@ EXCEPT !.pc = "select", !.now = now, !.scan = 1]]
  /\ UNCHANGED <<org, notifications>>

\* for org in orgs_7_days / orgs_1_day: the query is run when the loop starts
SelectForReminder(s) ==
  /\ sweepers[s].pc = "select"
  /\ sweepers' = [sweepers EXCEPT ![s] =
       IF DueForReminder(org_created, org, @.now, ReminderThresholds[@.scan])
       THEN [@ EXCEPT !.pc = "recent"]
       ELSE IF @.scan < Len(ReminderThresholds)
       THEN [@ EXCEPT !.scan = @ + 1]
       ELSE [@ EXCEPT !.pc = "expired"]]
  /\ UNCHANGED <<org, notifications>>

\* send_trial_expiry_reminder: the look for a recent reminder; when there is
\* one the function returns and the sweep goes on to its next scan
CheckRecentReminder(s) ==
  /\ sweepers[s].pc = "recent"
  /\ sweepers' = [sweepers EXCEPT ![s] =
       IF ~RecentReminder(notifications, ReminderThresholds[@.scan], now)
       THEN [@ EXCEPT !.pc = "remind"]
       ELSE IF @.scan < Len(ReminderThresholds)
       THEN [@ EXCEPT !.pc = "select", !.scan = @ + 1]
       ELSE [@ EXCEPT !.pc = "expired"]]
  /\ UNCHANGED <<org, notifications>>

\* send_trial_expiry_reminder: create_notification and the e-mail
SendReminder(s) ==
  /\ sweepers[s].pc = "remind"
  /\ notifications' = Append(notifications,
       Notification(TRIAL_ENDING, ReminderThresholds[sweepers[s].scan], now))
  /\ sweepers' = [sweepers EXCEPT ![s] =
       IF @.scan < Len(ReminderThresholds)
       THEN [@ EXCEPT !.pc = "select", !.scan = @ + 1]
       ELSE [@ EXCEPT !.pc = "expired"]]
  /\ UNCHANGED org

\* for org in expired_orgs: the query is run and the organization is loaded
SelectExpired(s) ==
  /\ sweepers[s].pc = "expired"
  /\ sweepers' = [sweepers EXCEPT ![s] =
       IF TrialExpired(org_created, org, @.now)
       THEN [@ EXCEPT !.pc = "save", !.org = org]
       ELSE NoSweep]
  /\ UNCHANGED <<org, notifications>>

\* org.is_subscription_active = False; org.subscription_status = CANCELED;
\* org.save(): the loaded row is written back whole
SaveExpired(s) ==
  /\ sweepers[s].pc = "save"
  /\ org' = [sweepers[s].org EXCEPT !.is_subscription_active = FALSE,
                                   !.subscription_status = CANCELED]
  /\ sweepers' = [sweepers EXCEPT ![s] = [@ EXCEPT !.pc = "notify", !.org = org']]
  /\ UNCHANGED notifications

\* send_cancellation_notification(org): create_notification and the e-mail,
\* with no look at what was sent before
NotifyExpired(s) ==
  /\ sweepers[s].pc = "notify"
  /\ notifications' = Append(notifications, Notification(SUBSCRIPTION_CANCELED, NoTime, now))
  /\ sweepers' = [sweepers EXCEPT ![s] = NoSweep]
  /\ UNCHANGED org

\* ------------------------------------- stripe_webhook, statement by statement
\* the requests the server handles at the same time
Deliveries == 1..NumDeliveries

NoEvent == Event(None, None, None, None, None, None, NoTime, FALSE, FALSE)

\* a request that has not arrived
NoDelivery == [pc |-> "idle", ev |-> NoEvent, loaded |-> OrganizationDefaults,
               saved |-> FALSE, notification |-> None, resp |-> None]

\* the handlers that call a notification function after their history row:
\* updated when the plan changed, deleted, payment_succeeded, payment_failed
NotifiesAfter(o, ev) ==
  CASE ev.type = "customer.subscription.updated" ->
         /\ get_plan_from_price_id(ev.price) # None
         /\ get_plan_from_price_id(ev.price) # o.subscription_plan
    [] ev.type = "customer.subscription.deleted" -> TRUE
    [] ev.type = "invoice.payment_succeeded" -> TRUE
    [] ev.type = "invoice.payment_failed" -> TRUE
    [] OTHER -> FALSE

\* the notification functions run their whole body in try ... except
\* Exception and return False: whatever fails in them, nothing is raised
NotificationRaises_Propagates(delivered) == ~delivered

NotificationRaises(delivered) == FALSE

\* the request arrives with a valid signature
Receive(d, ev) ==
  /\ deliveries[d].pc = "idle"
  /\ deliveries' = [deliveries EXCEPT ![d] = [@ EXCEPT !.pc = "check", !.ev = ev]]
  /\ UNCHANGED <<org, history>>

\* if SubscriptionHistory.objects.filter(stripe_event_id=event_id).exists()
CheckLogged(d) ==
  /\ deliveries[d].pc = "check"
  /\ deliveries' = [deliveries EXCEPT ![d] =
       IF EventAlreadyLogged(history, deliveries[d].ev.id)
       THEN [@ EXCEPT !.pc = "done", !.resp = "duplicate"]
       ELSE [@ EXCEPT !.pc = "load"]]
  /\ UNCHANGED <<org, history>>

\* Organization.objects.get(...): the row as it is now; a handler that finds no
\* organization or no plan writes nothing and the request is answered
LoadOrganization(d) ==
  /\ deliveries[d].pc = "load"
  /\ LET r == Dispatch(org_created, org, deliveries[d].ev, now, TRUE) IN
     deliveries' = [deliveries EXCEPT ![d] =
       IF r.rows = <<>>
       THEN [@ EXCEPT !.pc = "done", !.resp = "success"]
       ELSE [@ EXCEPT !.pc = "save", !.loaded = org]]
  /\ UNCHANGED <<org, history>>

\* org.save(): every field of the loaded row, with the handler's assignments
SaveOrganization(d) ==
  /\ deliveries[d].pc = "save"
  /\ org' = Dispatch(TRUE, deliveries[d].loaded, deliveries[d].ev, now, TRUE).org
  /\ deliveries' = [deliveries EXCEPT ![d] = [@ EXCEPT !.pc = "log", !.saved = TRUE]]
  /\ UNCHANGED history

\* SubscriptionHistory.objects.create(stripe_event_id=event_id, ...): the
\* column is unique, a second row with the id raises IntegrityError and the
\* request is answered 500
LogHistory(d) ==
  /\ deliveries[d].pc = "log"
  /\ IF EventAlreadyLogged(history, deliveries[d].ev.id)
     THEN /\ deliveries' = [deliveries EXCEPT ![d] =
               [@ EXCEPT !.pc = "done", !.resp = "processing_failed"]]
          /\ UNCHANGED history
     ELSE /\ history' = history \o
               Dispatch(TRUE, deliveries[d].loaded, deliveries[d].ev, now, TRUE).rows
          /\ deliveries' = [deliveries EXCEPT ![d] =
               IF @.ev.type = "invoice.payment_succeeded" /\ @.ev.payment_intent
               THEN [@ EXCEPT !.pc = "card"]
               ELSE IF NotifiesAfter(@.loaded, @.ev)
               THEN [@ EXCEPT !.pc = "notify"]
               ELSE [@ EXCEPT !.pc = "done", !.resp = "success"]]
  /\ UNCHANGED org

\* the last four digits of the card of a payment intent
CARD_LAST4 == "4242"

\* invoice.payment_succeeded, after the row was created: PaymentIntent.retrieve
\* with the payment method expanded; when it carries a card the row just
\* created is given the card's brand and last four digits and saved again; a
\* failure of the call is logged and the request goes on
RecordCard(d, card) ==
  /\ deliveries[d].pc = "card"
  /\ history' =
       IF card
       THEN LET i == CHOOSE k \in 1..Len(history) :
                       history[k].stripe_event_id = deliveries[d].ev.id
            IN [history EXCEPT ![i] = [@ EXCEPT !.payment_method_last4 = CARD_LAST4]]
       ELSE history
  /\ deliveries' = [deliveries EXCEPT ![d] = [@ EXCEPT !.pc = "notify"]]
  /\ UNCHANGED org

\* the call of the handler's notification function, its result not looked
\* at; an exception out of it would reach the view's except and be answered 500
Notify(d, delivered) ==
  /\ deliveries[d].pc = "notify"
  /\ deliveries' = [deliveries EXCEPT ![d] =
       [@ EXCEPT !.pc = "done",
                 !.notification = IF delivered THEN "sent" ELSE "failed",
                 !.resp = IF NotificationRaises(delivered)
                          THEN "processing_failed" ELSE "success"]]
  /\ UNCHANGED <<org, history>>

\* ------------------------------------------------------------- usage ledger
Callers == 1..NumCallers

\* the month has no usage_tracking row
NoRow == [exists |-> FALSE, emails_sent |-> 0, campaigns_created |-> 0, contacts_imported |-> 0]

\* UsageTracking: a new row, its counters at the field default
NewRow == [exists |-> TRUE, emails_sent |-> 0, campaigns_created |-> 0, contacts_imported |-> 0]

\* a call that has not started
NoCall == [pc |-> "idle", resource_type |-> None, usage |-> NoRow]

\* field_map
FieldMap ==
  [emails |-> "emails_sent", campaigns |-> "campaigns_created", contacts |-> "contacts_imported"]

\* the resource types callers pass; 'widgets' is not in field_map
ResourceTypes == {"emails", "campaigns", "widgets"}

\* update_usage_tracking(organization, resource_type) is entered
CallUpdateUsage(c, resource_type) ==
  /\ callers[c].pc = "idle"
  /\ callers' = [callers EXCEPT ![c] = [@ EXCEPT !.pc = "get", !.resource_type = resource_type]]
  /\ UNCHANGED usage

\* get_or_create: self.get(organization=..., month=...)
GetUsage(c) ==
  /\ callers[c].pc = "get"
  /\ callers' = [callers EXCEPT ![c] =
       IF usage.exists THEN [@ EXCEPT !.pc = "update", !.usage = usage]
       ELSE [@ EXCEPT !.pc = "create"]]
  /\ UNCHANGED usage

\* get_or_create: self.create(...); (organization, month) is unique together,
\* the insert of a second row raises IntegrityError
CreateUsage(c) ==
  /\ callers[c].pc = "create"
  /\ IF usage.exists
     THEN /\ callers' = [callers EXCEPT ![c] = [@ EXCEPT !.pc = "reget"]]
          /\ UNCHANGED usage
     ELSE /\ usage' = NewRow
          /\ callers' = [callers EXCEPT ![c] = [@ EXCEPT !.pc = "update", !.usage = NewRow]]

\* get_or_create: self.get(...) again after the IntegrityError
RegetUsage(c) ==
  /\ callers[c].pc = "reget"
  /\ usage.exists
  /\ callers' = [callers EXCEPT ![c] = [@ EXCEPT !.pc = "update", !.usage = usage]]
  /\ UNCHANGED usage

\* usage.field += increment; usage.save(): the addition is made on the row
\* the caller loaded
IncrementUsage_OnLoadedRow(c) ==
  /\ callers[c].pc = "update"
  /\ LET rt == callers[c].resource_type IN
     usage' = IF rt \in DOMAIN FieldMap /\ usage.exists
              THEN [usage EXCEPT ![FieldMap[rt]] = callers[c].usage[FieldMap[rt]] + 1]
              ELSE usage
  /\ callers' = [callers EXCEPT ![c] = [@ EXCEPT !.pc = "done"]]

\* filter(...).update(field=F(field) + increment): one UPDATE statement, the
\* addition is made by the database on the row's current value
IncrementUsage(c) ==
  /\ callers[c].pc = "update"
  /\ LET rt == callers[c].resource_type IN
     usage' = IF rt \in DOMAIN FieldMap /\ usage.exists
              THEN [usage EXCEPT ![FieldMap[rt]] = @ + 1]
              ELSE usage
  /\ callers' = [callers EXCEPT ![c] = [@ EXCEPT !.pc = "done"]]

\* ------------------------------------------------ usage ledger, by month
\* month_start: the first day of the month of a day
MonthStart(t) == (t \div MONTHLY_DAYS) * MONTHLY_DAYS

\* UsageTracking: a row of a month
MonthRow(month, emails_sent, campaigns_created, contacts_imported) ==
  [month |-> month, emails_sent |-> emails_sent, campaigns_created |-> campaigns_created,
   contacts_imported |-> contacts_imported]

\* the rows of the organization for a month
RowsOfMonth(rows, month) == {i \in 1..Len(rows) : rows[i].month = month}

\* what a call goes on to after get_or_create: update_usage_tracking to its
\* UPDATE when the resource type is in field_map, and to its end when not;
\* get_current_usage (no resource type) returns
AfterGetOrCreate(resource_type) ==
  IF resource_type \in DOMAIN FieldMap THEN "update" ELSE "done"

\* update_usage_tracking(organization, resource_type) or, with no resource
\* type, get_current_usage(organization) is entered
CallLedger(c, resource_type) ==
  /\ callers[c].pc = "idle"
  /\ callers' = [callers EXCEPT ![c] = [@ EXCEPT !.pc = "get", !.resource_type = resource_type]]
  /\ UNCHANGED ledger

\* get_or_create: self.get(organization=..., month=month_start)
GetMonth(c) ==
  /\ callers[c].pc = "get"
  /\ callers' = [callers EXCEPT ![c] =
       IF RowsOfMonth(ledger, MonthStart(now)) # {}
       THEN [@ EXCEPT !.pc = AfterGetOrCreate(callers[c].resource_type)]
       ELSE [@ EXCEPT !.pc = "create"]]
  /\ UNCHANGED ledger

\* get_or_create: self.create(...) on a table with no unique constraint
CreateMonth_NoConstraint(c) ==
  /\ callers[c].pc = "create"
  /\ ledger' = Append(ledger, MonthRow(MonthStart(now), 0, 0, 0))
  /\ callers' = [callers EXCEPT ![c] = [@ EXCEPT !.pc = AfterGetOrCreate(callers[c].resource_type)]]

\* get_or_create: self.create(...); unique_together = [organization, month]:
\* the insert of a second row of the month raises IntegrityError
CreateMonth(c) ==
  /\ callers[c].pc = "create"
  /\ IF RowsOfMonth(ledger, MonthStart(now)) # {}
     THEN /\ callers' = [callers EXCEPT ![c] = [@ EXCEPT !.pc = "reget"]]
          /\ UNCHANGED ledger
     ELSE /\ ledger' = Append(ledger, MonthRow(MonthStart(now), 0, 0, 0))
          /\ callers' = [callers EXCEPT ![c] =
               [@ EXCEPT !.pc = AfterGetOrCreate(callers[c].resource_type)]]

\* get_or_create: self.get(...) again after the IntegrityError
RegetMonth(c) ==
  /\ callers[c].pc = "reget"
  /\ RowsOfMonth(ledger, MonthStart(now)) # {}
  /\ callers' = [callers EXCEPT ![c] = [@ EXCEPT !.pc = AfterGetOrCreate(callers[c].resource_type)]]
  /\ UNCHANGED ledger

\* filter(organization=..., month=month_start).update(field=F(field) + 1):
\* one UPDATE statement on every row the filter matches
IncrementMonth(c) ==
  /\ callers[c].pc = "update"
  /\ ledger' = [i \in 1..Len(ledger) |->
       IF ledger[i].month = MonthStart(now)
       THEN [ledger[i] EXCEPT ![FieldMap[callers[c].resource_type]] = @ + 1]
       ELSE ledger[i]]
  /\ callers' = [callers EXCEPT ![c] = [@ EXCEPT !.pc = "done"]]

\* ------------------------------------------------- gated requests to the API
\* SubscriptionAccessMiddleware._get_current_usage (apps.common): the month's
\* row is fetched with get_or_create
CurrentUsageRow(u) == IF u.exists THEN u ELSE NewRow

\* ------------------------------------------------------ usage-limit warnings
LIMIT_WARNING == "limit_warning"

\* SubscriptionNotification: the in-app row the task creates for a resource
LimitWarning(resource, current, limit, t) ==
  [notification_type |-> LIMIT_WARNING, resource |-> resource, current |-> current,
   percentage |-> (current * 100) \div limit, created_at |-> t]

\* limit > 0 and 90 <= (count / limit) * 100 < 100
InWarningBand(count, limit) ==
  /\ limit > 0
  /\ count * 100 >= 90 * limit
  /\ count * 100 < 100 * limit

\* the rows the task adds for one organization: contacts first, then campaigns
WarningsOf(o, contact_count, campaign_count, t) ==
  (IF InWarningBand(contact_count, o.contacts_limit)
   THEN <<LimitWarning("contacts", contact_count, o.contacts_limit, t)>> ELSE <<>>)
  \o (IF InWarningBand(campaign_count, o.campaigns_limit)
      THEN <<LimitWarning("campaigns", campaign_count, o.campaigns_limit, t)>> ELSE <<>>)

\* send_usage_limit_warnings (the task): for an organization marked active,
\* a warning for each resource in the band, created with no look at earlier ones
SendUsageLimitWarnings(contact_count, campaign_count) ==
  /\ notifications' =
       IF org_created /\ org.is_subscription_active
       THEN notifications \o WarningsOf(org, contact_count, campaign_count, now)
       ELSE notifications
  /\ last' = Answer("send_usage_limit_warnings", None,
                    IF org_created /\ org.is_subscription_active
                    THEN Len(WarningsOf(org, contact_count, campaign_count, now)) ELSE 0)
  /\ UNCHANGED <<now, org_created, org, history, usage, callers, sweepers>>

\* Command.check_usage_limits (the scheduler): get_current_usage gets or
\* creates the month's row, then org.get_plan_limits() raises AttributeError
\* (Organization has no such method); the error is counted and no warning sent
SchedulerCheckUsageLimits ==
  /\ usage' = IF org_created /\ org.is_subscription_active THEN CurrentUsageRow(usage) ELSE usage
  /\ last' = Answer("scheduler_check_usage_limits", None,
                    IF org_created /\ org.is_subscription_active THEN "attribute_error" ELSE "none")
  /\ UNCHANGED <<now, org_created, org, history, callers, sweepers, notifications>>

\* SubscriptionAccessMiddleware.process_request (apps.common) up to the usage
\* check: 402 for an expired, past-due or canceled subscription
GateStatusDenies(o, t) ==
  \/ IF o.subscription_plan = FREE_TRIAL
     THEN o.trial_ends_at # NoTime /\ t > o.trial_ends_at
     ELSE o.subscription_ends_at # NoTime /\ t > o.subscription_ends_at
  \/ o.subscription_status = PAST_DUE
  \/ o.subscription_status = CANCELED

\* SubscriptionAccessMiddleware._check_usage_limits (apps.common) for a POST
\* whose path holds /api/campaigns/: 403 at the campaigns limit, and otherwise
\* campaigns_created = F('campaigns_created') + 1 on the month's row;
\* total_campaigns: organization.campaigns.count()
GateCheckUsageLimits(o, u, total_campaigns) ==
  IF total_campaigns >= o.campaigns_limit
  THEN [denied |-> TRUE, usage |-> u]
  ELSE [denied |-> FALSE, usage |-> [u EXCEPT !.campaigns_created = @ + 1]]

\* the gate of a POST under /api/campaigns/: what it answers and the row it leaves
GateCampaignsPost(o, t, u, total_campaigns) ==
  IF GateStatusDenies(o, t)
  THEN [resp |-> "subscription_required", usage |-> CurrentUsageRow(u)]
  ELSE LET g == GateCheckUsageLimits(o, CurrentUsageRow(u), total_campaigns) IN
       [resp |-> IF g.denied THEN "limit_reached" ELSE "pass", usage |-> g.usage]

\* POST /api/campaigns/: the gate, then CampaignViewSet.create, which checks
\* the campaigns limit again, creates the campaign and, on a 201, calls
\* update_usage_tracking(organization, 'campaigns'); created: the serializer
\* accepted the request
CreateCampaign(total_campaigns, created) ==
  /\ LET g == GateCampaignsPost(org, now, usage, total_campaigns) IN
     IF g.resp # "pass"
     THEN /\ usage' = g.usage
          /\ last' = Answer("create_campaign", None, g.resp)
     ELSE IF ~(total_campaigns < org.campaigns_limit)
     THEN /\ usage' = g.usage
          /\ last' = Answer("create_campaign", None, "limit_reached")
     ELSE IF ~created
     THEN /\ usage' = g.usage
          /\ last' = Answer("create_campaign", None, "failed")
     ELSE /\ usage' = [g.usage EXCEPT !.campaigns_created = @ + 1]
          /\ last' = Answer("create_campaign", None, "created")
  /\ UNCHANGED <<now, org_created, org, history, callers>>

\* POST /api/campaigns/<id>/send/: the gate, then CampaignViewSet.send, which
\* wants an active subscription, a draft campaign and room under the monthly
\* email limit, queues the emails and calls
\* update_usage_tracking(organization, 'emails', len(recipients))
SendCampaign(total_campaigns, draft, recipients) ==
  /\ LET g == GateCampaignsPost(org, now, usage, total_campaigns) IN
     IF g.resp # "pass"
     THEN /\ usage' = g.usage
          /\ last' = Answer("send_campaign", None, g.resp)
     ELSE IF ~check_subscription_active(org, now)
     THEN /\ usage' = g.usage
          /\ last' = Answer("send_campaign", None, "subscription_required")
     ELSE IF ~draft
     THEN /\ usage' = g.usage
          /\ last' = Answer("send_campaign", None, "failed")
     ELSE IF g.usage.emails_sent + recipients > org.emails_per_month_limit
     THEN /\ usage' = g.usage
          /\ last' = Answer("send_campaign", None, "limit_reached")
     ELSE /\ usage' = [g.usage EXCEPT !.emails_sent = @ + recipients]
          /\ last' = Answer("send_campaign", None, "queued")
  /\ UNCHANGED <<now, org_created, org, history, callers>>

\* POST /api/contacts/: the gate, which for this path reads and writes
\* nothing but the month's row it fetches, then ContactViewSet.create, which
\* asks check_usage_limit(organization, 'contacts'), creates the contact and,
\* on a 201, calls update_usage_tracking(organization, 'contacts');
\* total_contacts: organization.contacts.count()
CreateContact(total_contacts, created) ==
  /\ IF GateStatusDenies(org, now)
     THEN /\ usage' = CurrentUsageRow(usage)
          /\ last' = Answer("create_contact", None, "subscription_required")
     ELSE IF ~(total_contacts < org.contacts_limit)
     THEN /\ usage' = CurrentUsageRow(usage)
          /\ last' = Answer("create_contact", None, "limit_reached")
     ELSE IF ~created
     THEN /\ usage' = CurrentUsageRow(usage)
          /\ last' = Answer("create_contact", None, "failed")
     ELSE /\ usage' = [CurrentUsageRow(usage) EXCEPT !.contacts_imported = @ + 1]
          /\ last' = Answer("create_contact", None, "created")
  /\ UNCHANGED <<now, org_created, org, history, callers>>

\* ------------------------------------------------------- check_usage_limit
\* the answer with 'allowed': current <= limit
LimitAnswer_AtMost(current, limit) ==
  [allowed |-> current <= limit, current |-> current, limit |-> limit]

\* the answer for a resource that has a limit
LimitAnswer(current, limit) ==
  [allowed |-> current < limit, current |-> current, limit |-> limit]

\* 'current': None, 'limit': None
NoLimit == NoTime

\* the answer for a resource the plan does not limit
Unlimited == [allowed |-> TRUE, current |-> NoLimit, limit |-> NoLimit]

\* the answer for a resource type the function does not know
UnknownResource == [allowed |-> FALSE, current |-> NoLimit, limit |-> NoLimit]

\* PlanFeatures.objects.get(plan=...) raised DoesNotExist
NoFeatures ==
  [exists |-> FALSE, contacts_limit |-> 0, campaigns_limit |-> 0, emails_per_month |-> 0,
   has_email_campaigns |-> FALSE, has_basic_analytics |-> FALSE,
   has_advanced_analytics |-> FALSE,
   has_custom_templates |-> FALSE, has_white_labeling |-> FALSE]

\* check_usage_limit(organization, resource_type); plan_features: the
\* PlanFeatures row of the organization's plan, counts: the organization's
\* campaigns, contacts, templates and domains and the month's emails_sent
check_usage_limit(o, plan_features, counts, resource_type) ==
  CASE resource_type = "campaigns" ->
         LimitAnswer(counts.campaigns,
                     IF plan_features.exists THEN plan_features.campaigns_limit
                     ELSE o.campaigns_limit)
    [] resource_type = "contacts" ->
         LimitAnswer(counts.contacts,
                     IF plan_features.exists THEN plan_features.contacts_limit
                     ELSE o.contacts_limit)
    [] resource_type = "emails" ->
         LimitAnswer(counts.emails_sent,
                     IF plan_features.exists THEN plan_features.emails_per_month
                     ELSE o.emails_per_month_limit)
    [] resource_type = "templates" ->
         IF plan_features.exists /\ plan_features.has_custom_templates THEN Unlimited
         ELSE LimitAnswer(counts.templates, IF IsBasic(o.subscription_plan) THEN 10 ELSE 50)
    [] resource_type = "domains" ->
         IF plan_features.exists /\ plan_features.has_white_labeling THEN Unlimited
         ELSE LimitAnswer(counts.domains, IF IsBasic(o.subscription_plan) THEN 1 ELSE 3)
    [] OTHER -> UnknownResource

\* ------------------------------------------------------- the feature checks
\* basic_features
BasicFeatures == {"has_email_campaigns", "has_basic_analytics"}

\* getattr(plan_features, feature_name, False)
FeatureOf(plan_features, feature_name) ==
  IF feature_name \in DOMAIN plan_features THEN plan_features[feature_name] ELSE FALSE

\* check_feature_available(organization, feature_name)
check_feature_available(o, t, plan_features, feature_name) ==
  IF ~check_subscription_active(o, t) THEN FALSE
  ELSE IF plan_features.exists THEN FeatureOf(plan_features, feature_name)
  ELSE feature_name \in BasicFeatures

\* SubscriptionAccessMiddleware._check_feature_available(organization, feature)
MiddlewareCheckFeatureAvailable(plan_features, feature) ==
  IF plan_features.exists THEN FeatureOf(plan_features, feature)
  ELSE feature \in BasicFeatures

\* requires_plan_feature(feature_name): has_feature, on which the view is run
\* or answered 403
requires_plan_feature(plan_features, feature_name) ==
  IF plan_features.exists THEN FeatureOf(plan_features, feature_name)
  ELSE FALSE

\* the answer of a feature check, kept as a call of check_usage_limit keeps its
FeatureAnswer(allowed) == [allowed |-> allowed, current |-> NoLimit, limit |-> NoLimit]

\* a view, the middleware or the decorator asks for the feature
CheckFeature(entry) ==
  /\ check.pc = "called"
  /\ check' = [check EXCEPT
       !.pc = "done",
       !.result = FeatureAnswer(
         CASE entry = "check_feature_available" ->
                check_feature_available(org, now, check.plan_features, check.resource_type)
           [] entry = "_check_feature_available" ->
                MiddlewareCheckFeatureAvailable(check.plan_features, check.resource_type)
           [] entry = "requires_plan_feature" ->
                requires_plan_feature(check.plan_features, check.resource_type))]
  /\ last' = Answer(entry, check.resource_type, "done")
  /\ UNCHANGED <<now, org_created, org, history>>

\* requires_active_subscription: the view runs unless the trial or the
\* subscription has ended or the organization is not marked active (402)
requires_active_subscription(o, t) ==
  LET is_expired == IF o.subscription_plan = FREE_TRIAL
                    THEN o.trial_ends_at # NoTime /\ t > o.trial_ends_at
                    ELSE o.subscription_ends_at # NoTime /\ t > o.subscription_ends_at
  IN ~(is_expired \/ ~o.is_subscription_active)

\* one of the places that decide whether the organization's subscription lets
\* a request through is asked: check_subscription_active, the process_request
\* of the two SubscriptionAccessMiddleware classes for a protected endpoint,
\* or the requires_active_subscription decorator
DecideAccess(entry) ==
  /\ check.pc = "called"
  /\ check' = [check EXCEPT
       !.pc = "done",
       !.result = FeatureAnswer(
         CASE entry = "check_subscription_active" -> check_subscription_active(org, now)
           [] entry = "core.SubscriptionAccessMiddleware" -> SubscriptionAccessAllows(org, now)
           [] entry = "common.SubscriptionAccessMiddleware" -> ~GateStatusDenies(org, now)
           [] entry = "requires_active_subscription" -> requires_active_subscription(org, now))]
  /\ last' = Answer(entry, None, "done")
  /\ UNCHANGED <<now, org_created, org, history>>

\* no call of check_usage_limit has been made
NoCheck ==
  [pc |-> "idle", plan |-> FREE_TRIAL, plan_features |-> NoFeatures, resource_type |-> None,
   current |-> 0, result |-> UnknownResource]

\* ------------------------------------------------------------ specification
vars ==
  <<now, org_created, org, history, last, deliveries, usage, callers, check, sweepers,
    notifications, ledger, stored>>

\* the organization has not signed up yet
Init ==
  /\ now = 0
  /\ history = <<>>
  /\ last = Answer("none", None, "none")
  /\ org_created = FALSE
  /\ org = OrganizationDefaults
  /\ deliveries = [d \in Deliveries |-> NoDelivery]
  /\ usage = NoRow
  /\ callers = [c \in Callers |-> NoCall]
  /\ sweepers = [s \in Sweepers |-> NoSweep]
  /\ notifications = <<>>
  /\ ledger = <<>>
  /\ stored = NoStored
  /\ check = NoCheck

\* the tables and calls a request of the organization's life does not touch
OthersIdle == UNCHANGED <<race_vars, ledger_vars, usage_vars, check_vars, sweep_vars>>

\* a delivery with a valid signature
Webhook ==
  /\ \E ev \in Events(now) : StripeWebhook(ev, TRUE, TRUE)
  /\ Len(history') <= MaxHistory
  /\ OthersIdle

\* a delivery whose call to stripe.PaymentIntent.retrieve fails
WebhookRetrieveFails ==
  /\ \E ev \in {e \in SucceededEvents(now) : e.payment_intent} : StripeWebhook(ev, TRUE, FALSE)
  /\ OthersIdle

\* a delivery with a bad or missing signature
WebhookBadSignature ==
  /\ \E ev \in DeletedEvents(now) : StripeWebhook(ev, FALSE, TRUE)
  /\ OthersIdle

\* the bodies POST /organizations/ is called with: no trial_ends_at, and a
\* plan and a trial of the client's choosing
ApiCreateData(t) ==
  {[subscription_plan |-> PRO_MONTHLY, trial_ends_at |-> NoTime,
    contacts_limit |-> DEFAULT_CONTACTS_LIMIT, campaigns_limit |-> DEFAULT_CAMPAIGNS_LIMIT],
   [subscription_plan |-> PREMIUM_YEARLY, trial_ends_at |-> t + MONTHLY_DAYS,
    contacts_limit |-> DEFAULT_CONTACTS_LIMIT, campaigns_limit |-> DEFAULT_CAMPAIGNS_LIMIT]}

\* the bodies PATCH /organizations/<id>/ is called with
ApiUpdateData == {[subscription_plan |-> PRO_YEARLY]}

Create ==
  /\ \E data \in {SignupData(now)} \cup ApiCreateData(now) : CreateOrganization(data)
  /\ OthersIdle

Update ==
  /\ \E data \in ApiUpdateData : UpdateOrganization(data)
  /\ OthersIdle

Checkout ==
  /\ \E c \in BOOLEAN : CreateCheckoutSession(c, TRUE)
  /\ OthersIdle

ManagePlan ==
  /\ \E a \in {"upgrade", "downgrade"}, p \in RequestPlans, r \in BOOLEAN :
       ManageSubscription(a, p, FALSE, r)
  /\ Len(history') <= MaxHistory
  /\ OthersIdle

ManageCancellation ==
  /\ \E a \in {"cancel", "resume"}, i \in BOOLEAN, r \in BOOLEAN :
       ManageSubscription(a, None, i, r)
  /\ Len(history') <= MaxHistory
  /\ OthersIdle

Cancel ==
  /\ \E r \in BOOLEAN : CancelSubscription(r)
  /\ Len(history') <= MaxHistory
  /\ OthersIdle

Subscribe ==
  /\ \E p \in RequestPlans, c \in BOOLEAN, s \in BOOLEAN : CreateSubscription(p, c, s, "sub_1")
  /\ Len(history') <= MaxHistory
  /\ OthersIdle

\* the requests and deliveries of one organization's life, from before its
\* creation, while the subscription_history table holds at most MaxHistory rows
Next ==
  \/ Create
  \/ Update
  \/ Checkout
  \/ Webhook
  \/ WebhookRetrieveFails
  \/ WebhookBadSignature
  \/ ManagePlan
  \/ ManageCancellation
  \/ Cancel
  \/ Subscribe

Spec == Init /\ [][Next]_vars


\* ------------------------------------------------------- a subscriber's life
\* the row of an organization that signed up on day 0 and opened a checkout
\* session, which created its Stripe customer
CheckedOut ==
  [OrganizationDefaults EXCEPT !.trial_ends_at = TRIAL_DAYS, !.stripe_customer_id = "cus_1"]

\* the customer.subscription.created event of the organization's subscription
SubscriptionEvent ==
  Event("evt_1", "customer.subscription.created", "cus_1", "sub_1", "price_basic_monthly",
        "active", 1, FALSE, FALSE)

\* the organization signed up on day 0, opened a checkout session and the
\* customer.subscription.created event of its subscription was applied
Subscribed == HandleSubscriptionCreated(TRUE, CheckedOut, SubscriptionEvent)

InitBilling ==
  /\ now = 0
  /\ org_created = TRUE
  /\ org = Subscribed.org
  /\ history = Subscribed.rows
  /\ last = Answer("stripe_webhook", SubscriptionEvent.id, "success")
  /\ deliveries = [d \in Deliveries |-> NoDelivery]
  /\ usage = NoRow
  /\ callers = [c \in Callers |-> NoCall]
  /\ sweepers = [s \in Sweepers |-> NoSweep]
  /\ notifications = <<>>
  /\ ledger = <<>>
  /\ stored = NoStored
  /\ check = NoCheck

\* the event ids of the invoices and of the end of the subscription
BillingEventIds == {"evt_2", "evt_3"}

\* an invoice of the subscriber could not be collected
InvoiceFailed ==
  /\ \E ev \in FailedEventsOf(BillingEventIds, now) : StripeWebhook(ev, TRUE, TRUE)
  /\ Len(history') <= MaxBillingHistory
  /\ OthersIdle

\* an invoice was paid; the call to stripe.PaymentIntent.retrieve answers or fails
InvoicePaid ==
  /\ \E ev \in SucceededEventsOf(BillingEventIds, now), pi_ok \in BOOLEAN :
       StripeWebhook(ev, TRUE, pi_ok)
  /\ Len(history') <= MaxBillingHistory
  /\ OthersIdle

\* Stripe ended the subscription
SubscriptionDeleted ==
  /\ \E ev \in DeletedEventsOf(BillingEventIds, now) : StripeWebhook(ev, TRUE, TRUE)
  /\ Len(history') <= MaxBillingHistory
  /\ OthersIdle

\* Stripe delivers the subscription's creation again
Redelivery ==
  /\ StripeWebhook(SubscriptionEvent, TRUE, TRUE)
  /\ OthersIdle

\* the subscriber cancels, at once or at the period end, or resumes
SubscriberManages ==
  /\ \E a \in {"cancel", "resume"}, i \in BOOLEAN, r \in BOOLEAN :
       ManageSubscription(a, None, i, r)
  /\ Len(history') <= MaxBillingHistory
  /\ OthersIdle

SubscriberCancels ==
  /\ \E r \in BOOLEAN : CancelSubscription(r)
  /\ Len(history') <= MaxBillingHistory
  /\ OthersIdle

\* a subscriber whose subscription has ended, back on the trial plan,
\* subscribes again through create_subscription; Stripe names the new
\* subscription sub_2
SubscriberSubscribes ==
  /\ org.subscription_plan = FREE_TRIAL
  /\ \E p \in {BASIC_YEARLY}, s \in BOOLEAN : CreateSubscription(p, TRUE, s, "sub_2")
  /\ Len(history') <= MaxBillingHistory
  /\ OthersIdle

\* the scheduled jobs
TrialSweep == CheckTrialExpirations /\ OthersIdle

SubscriptionSweep == CheckSubscriptionExpirations /\ OthersIdle

SchedulerSubscriptionSweep == SchedulerCheckSubscriptionExpirations /\ OthersIdle

\* a day passes, up to the last day of the run
NextDay == now < MaxTime /\ Tick /\ OthersIdle

\* the deliveries, cancellations and scheduled jobs of a subscriber, day after
\* day, while the subscription_history table holds at most MaxBillingHistory rows
NextBilling ==
  \/ InvoiceFailed
  \/ InvoicePaid
  \/ SubscriptionDeleted
  \/ Redelivery
  \/ SubscriberManages
  \/ SubscriberCancels
  \/ SubscriberSubscribes
  \/ TrialSweep
  \/ SubscriptionSweep
  \/ SchedulerSubscriptionSweep
  \/ NextDay

SpecBilling == InitBilling /\ [][NextBilling]_vars


\* --------------------------------------------- deliveries at the same time
\* a later event of the subscription: the plan is changed to pro yearly
PlanChangeEvent ==
  Event("evt_2", "customer.subscription.updated", "cus_1", "sub_1", "price_pro_yearly",
        "active", 1, FALSE, FALSE)

\* and an invoice of the subscription that could not be collected
InvoiceFailedEvent ==
  Event("evt_3", "invoice.payment_failed", "cus_1", "sub_1", None, "active", 0, FALSE, FALSE)

RaceEvents == {SubscriptionEvent, PlanChangeEvent, InvoiceFailedEvent}

\* the organization has signed up and opened a checkout session; no delivery
\* has arrived
InitRace ==
  /\ now = 0
  /\ org_created = TRUE
  /\ org = CheckedOut
  /\ history = <<>>
  /\ last = Answer("create_checkout_session", None, "ok")
  /\ deliveries = [d \in Deliveries |-> NoDelivery]
  /\ usage = NoRow
  /\ callers = [c \in Callers |-> NoCall]
  /\ sweepers = [s \in Sweepers |-> NoSweep]
  /\ notifications = <<>>
  /\ ledger = <<>>
  /\ stored = NoStored
  /\ check = NoCheck

\* what a delivery in progress leaves alone
RaceIdle == UNCHANGED <<now, org_created, last, usage_vars, check_vars, sweep_vars, ledger_vars>>

Arrive == (\E d \in Deliveries, ev \in RaceEvents : Receive(d, ev)) /\ RaceIdle

Deduplicate == (\E d \in Deliveries : CheckLogged(d)) /\ RaceIdle

Load == (\E d \in Deliveries : LoadOrganization(d)) /\ RaceIdle

Save == (\E d \in Deliveries : SaveOrganization(d)) /\ RaceIdle

Log == (\E d \in Deliveries : LogHistory(d)) /\ RaceIdle

Notified == (\E d \in Deliveries, delivered \in BOOLEAN : Notify(d, delivered)) /\ RaceIdle

\* Stripe delivers and redelivers the events; the server runs the requests at
\* the same time, each database statement on its own
NextRace ==
  \/ Arrive
  \/ Deduplicate
  \/ Load
  \/ Save
  \/ Log
  \/ Notified

SpecRace == InitRace /\ [][NextRace]_vars

\* ------------------------------------------- the deliveries of the invoices
\* an invoice of the subscription that was paid through a payment intent
InvoicePaidEvent ==
  Event("evt_2", "invoice.payment_succeeded", "cus_1", "sub_1", None, "active", 0, FALSE, TRUE)

InvoiceEvents == {InvoicePaidEvent, InvoiceFailedEvent}

\* the organization has subscribed; no invoice has arrived
InitInvoice == InitBilling

InvoiceArrives == (\E d \in Deliveries, ev \in InvoiceEvents : Receive(d, ev)) /\ RaceIdle

InvoiceRecordsCard == (\E d \in Deliveries, card \in BOOLEAN : RecordCard(d, card)) /\ RaceIdle

NextInvoice ==
  \/ InvoiceArrives
  \/ Deduplicate
  \/ Load
  \/ Save
  \/ Log
  \/ InvoiceRecordsCard
  \/ Notified

SpecInvoice == InitInvoice /\ [][NextInvoice]_vars

\* ------------------------------------------------- usage calls at the same time
\* the month has no row and no call has started
InitUsage ==
  /\ now = 0
  /\ org_created = TRUE
  /\ org = CheckedOut
  /\ history = <<>>
  /\ last = Answer("create_checkout_session", None, "ok")
  /\ deliveries = [d \in Deliveries |-> NoDelivery]
  /\ usage = NoRow
  /\ callers = [c \in Callers |-> NoCall]
  /\ sweepers = [s \in Sweepers |-> NoSweep]
  /\ notifications = <<>>
  /\ ledger = <<>>
  /\ stored = NoStored
  /\ check = NoCheck

\* what a call of update_usage_tracking leaves alone
UsageIdle == UNCHANGED <<lifecycle_vars, race_vars, ledger_vars, check_vars, sweep_vars>>

EnterUpdate == (\E c \in Callers, rt \in ResourceTypes : CallUpdateUsage(c, rt)) /\ UsageIdle

Get == (\E c \in Callers : GetUsage(c)) /\ UsageIdle

Insert == (\E c \in Callers : CreateUsage(c)) /\ UsageIdle

Reget == (\E c \in Callers : RegetUsage(c)) /\ UsageIdle

Increment == (\E c \in Callers : IncrementUsage(c)) /\ UsageIdle

\* the callers run at the same time, each database statement on its own
NextUsage ==
  \/ EnterUpdate
  \/ Get
  \/ Insert
  \/ Reget
  \/ Increment

SpecUsage == InitUsage /\ [][NextUsage]_vars

\* --------------------------------------- usage calls in a month with no row
\* the row of the month before, as the calls find it
LastMonthRow == MonthRow(0, 3, 1, 2)

\* the second month has begun and has no row; no call has started
InitLedger ==
  /\ now = MONTHLY_DAYS
  /\ org_created = TRUE
  /\ org = CheckedOut
  /\ history = <<>>
  /\ last = Answer("create_checkout_session", None, "ok")
  /\ deliveries = [d \in Deliveries |-> NoDelivery]
  /\ usage = NoRow
  /\ callers = [c \in Callers |-> NoCall]
  /\ sweepers = [s \in Sweepers |-> NoSweep]
  /\ notifications = <<>>
  /\ ledger = <<LastMonthRow>>
  /\ stored = NoStored
  /\ check = NoCheck

\* what a call on the ledger leaves alone
LedgerIdle == UNCHANGED <<lifecycle_vars, race_vars, usage, check_vars, sweep_vars, stored>>

\* the calls: update_usage_tracking for e-mails and campaigns and for a type
\* that is not in field_map, and get_current_usage
LedgerCalls == {"emails", "campaigns", "widgets", None}

EnterLedger == (\E c \in Callers, rt \in LedgerCalls : CallLedger(c, rt)) /\ LedgerIdle

GetOfMonth == (\E c \in Callers : GetMonth(c)) /\ LedgerIdle

InsertOfMonth == (\E c \in Callers : CreateMonth(c)) /\ LedgerIdle

RegetOfMonth == (\E c \in Callers : RegetMonth(c)) /\ LedgerIdle

IncrementOfMonth == (\E c \in Callers : IncrementMonth(c)) /\ LedgerIdle

NextLedger ==
  \/ EnterLedger
  \/ GetOfMonth
  \/ InsertOfMonth
  \/ RegetOfMonth
  \/ IncrementOfMonth

SpecLedger == InitLedger /\ [][NextLedger]_vars

\* ------------------------------------- a subscriber with a long paid period
\* the customer.subscription.created event of a subscription whose paid period
\* ends on the last day of the run
LongPeriodEvent ==
  Event("evt_1", "customer.subscription.created", "cus_1", "sub_1", "price_basic_monthly",
        "active", MaxTime, FALSE, FALSE)

\* the organization after that event was applied
LongSubscribed == HandleSubscriptionCreated(TRUE, CheckedOut, LongPeriodEvent)

InitRecovery ==
  /\ now = 0
  /\ org_created = TRUE
  /\ org = LongSubscribed.org
  /\ history = LongSubscribed.rows
  /\ last = Answer("stripe_webhook", LongPeriodEvent.id, "success")
  /\ deliveries = [d \in Deliveries |-> NoDelivery]
  /\ usage = NoRow
  /\ callers = [c \in Callers |-> NoCall]
  /\ sweepers = [s \in Sweepers |-> NoSweep]
  /\ notifications = <<>>
  /\ ledger = <<>>
  /\ stored = NoStored
  /\ check = NoCheck

SpecRecovery == InitRecovery /\ [][NextBilling]_vars

\* ------------------------------- two events of a subscriber at the same time
\* the events Stripe sends a subscriber: the plan change, the invoice that
\* could not be collected, and the creation once more
OverlapEvents == {PlanChangeEvent, InvoiceFailedEvent, SubscriptionEvent}

OverlapArrives == (\E d \in Deliveries, ev \in OverlapEvents : Receive(d, ev)) /\ RaceIdle

\* the requests for the events of a subscriber, each database statement on its
\* own
NextOverlap ==
  \/ OverlapArrives
  \/ Deduplicate
  \/ Load
  \/ Save
  \/ Log
  \/ Notified

SpecOverlap == InitBilling /\ [][NextOverlap]_vars

\* ------------------------------------------ gated creates, statement by statement
\* ContactViewSet.create or CampaignViewSet.create is entered
StartCreate(c, resource_type) ==
  /\ callers[c].pc = "idle"
  /\ callers' = [callers EXCEPT ![c] = [@ EXCEPT !.pc = "check", !.resource_type = resource_type]]
  /\ UNCHANGED <<ledger, stored>>

\* limit_check = check_usage_limit(organization, resource_type), which counts
\* the organization's rows; 403 when the answer is not 'allowed'. The plan has
\* no PlanFeatures row: the limits are the organization's
CheckLimit(c) ==
  /\ callers[c].pc = "check"
  /\ LET counts == [campaigns |-> stored.campaigns, contacts |-> stored.contacts,
                    emails_sent |-> 0, templates |-> 0, domains |-> 0]
         limit_check == check_usage_limit(org, NoFeatures, counts, callers[c].resource_type)
     IN callers' = [callers EXCEPT ![c] =
          [@ EXCEPT !.pc = IF limit_check.allowed THEN "insert" ELSE "done"]]
  /\ UNCHANGED <<ledger, stored>>

\* super().create(request): the serializer saves the row and the answer is
\* 201, or the data is not valid and no row is written; on a 201 the view goes
\* on to update_usage_tracking(organization, resource_type)
InsertResource(c, created) ==
  /\ callers[c].pc = "insert"
  /\ stored' = IF created THEN [stored EXCEPT ![callers[c].resource_type] = @ + 1] ELSE stored
  /\ callers' = [callers EXCEPT ![c] = [@ EXCEPT !.pc = IF created THEN "get" ELSE "done"]]
  /\ UNCHANGED ledger

\* the organization is one contact and one campaign short of its limits
InitCreate ==
  /\ now = 0
  /\ org_created = TRUE
  /\ org = Subscribed.org
  /\ history = Subscribed.rows
  /\ last = Answer("stripe_webhook", SubscriptionEvent.id, "success")
  /\ deliveries = [d \in Deliveries |-> NoDelivery]
  /\ usage = NoRow
  /\ callers = [c \in Callers |-> NoCall]
  /\ sweepers = [s \in Sweepers |-> NoSweep]
  /\ notifications = <<>>
  /\ ledger = <<>>
  /\ stored = [contacts |-> Subscribed.org.contacts_limit - 1,
               campaigns |-> Subscribed.org.campaigns_limit - 1]
  /\ check = NoCheck

\* what a statement of a create request leaves alone
CreateIdle == UNCHANGED <<lifecycle_vars, race_vars, usage, check_vars, sweep_vars>>

CreateStarts ==
  (\E c \in Callers, rt \in {"contacts", "campaigns"} : StartCreate(c, rt)) /\ CreateIdle

CreateChecksLimit == (\E c \in Callers : CheckLimit(c)) /\ CreateIdle

CreateInserts == (\E c \in Callers, created \in BOOLEAN : InsertResource(c, created)) /\ CreateIdle

\* the create requests of the members of an organization, handled at the same
\* time, each database statement on its own
NextCreate ==
  \/ CreateStarts
  \/ CreateChecksLimit
  \/ CreateInserts
  \/ GetOfMonth
  \/ InsertOfMonth
  \/ RegetOfMonth
  \/ IncrementOfMonth

SpecCreate == InitCreate /\ [][NextCreate]_vars

\* ------------------------------------------------- calls of check_usage_limit
\* the resource types callers pass; 'segments' is one the function does not know
CheckedResources == {"campaigns", "contacts", "emails", "templates", "domains", "segments"}

\* the plan_features table holds no row for the plan, or one of these
FeatureRows ==
  {NoFeatures} \cup
  {[exists |-> TRUE, contacts_limit |-> 500, campaigns_limit |-> 5, emails_per_month |-> 2000,
    has_email_campaigns |-> TRUE, has_basic_analytics |-> TRUE, has_advanced_analytics |-> FALSE,
    has_custom_templates |-> t, has_white_labeling |-> w] : t \in BOOLEAN, w \in BOOLEAN}

\* every limit an answer can carry
Limits ==
  {PLAN_CONFIG[p].contacts_limit : p \in Plans} \cup {PLAN_CONFIG[p].campaigns_limit : p \in Plans}
  \cup {DEFAULT_EMAILS_LIMIT, 1, 3, 10, 50, 5, 500, 2000}

\* the counts around every limit
Counts == UNION {{l - 1, l, l + 1} : l \in Limits}

\* the organization's row on a plan
OrgOfPlan(plan) ==
  [CheckedOut EXCEPT !.subscription_plan = plan,
                     !.contacts_limit = PLAN_CONFIG[plan].contacts_limit,
                     !.campaigns_limit = PLAN_CONFIG[plan].campaigns_limit]

\* the organization has current objects of the resource, and none of the others
CountsOf(resource_type, current) ==
  [campaigns |-> IF resource_type = "campaigns" THEN current ELSE 0,
   contacts |-> IF resource_type = "contacts" THEN current ELSE 0,
   emails_sent |-> IF resource_type = "emails" THEN current ELSE 0,
   templates |-> IF resource_type = "templates" THEN current ELSE 0,
   domains |-> IF resource_type = "domains" THEN current ELSE 0]

\* a view is about to ask whether the organization may add to a resource
InitLimit ==
  /\ now = 0
  /\ org_created = TRUE
  /\ history = <<>>
  /\ last = Answer("create_checkout_session", None, "ok")
  /\ deliveries = [d \in Deliveries |-> NoDelivery]
  /\ usage = NoRow
  /\ callers = [c \in Callers |-> NoCall]
  /\ sweepers = [s \in Sweepers |-> NoSweep]
  /\ notifications = <<>>
  /\ ledger = <<>>
  /\ stored = NoStored
  /\ \E plan \in Plans, f \in FeatureRows, rt \in CheckedResources, n \in Counts :
       /\ org = OrgOfPlan(plan)
       /\ check = [pc |-> "called", plan |-> plan, plan_features |-> f, resource_type |-> rt,
                   current |-> n, result |-> UnknownResource]

\* the view calls check_usage_limit
CheckUsageLimit ==
  /\ check.pc = "called"
  /\ check' = [check EXCEPT
       !.pc = "done",
       !.result = check_usage_limit(org, check.plan_features,
                                    CountsOf(check.resource_type, check.current),
                                    check.resource_type)]
  /\ UNCHANGED <<lifecycle_vars, race_vars, ledger_vars, usage_vars, sweep_vars>>

NextLimit == CheckUsageLimit

SpecLimit == InitLimit /\ [][NextLimit]_vars

\* ---------------------------------------------------- calls of the feature checks
\* the features callers ask for: the two basic ones, two others, and a name
\* PlanFeatures has no field for
CheckedFeatures ==
  {"has_email_campaigns", "has_basic_analytics", "has_advanced_analytics",
   "has_white_labeling", "has_sso"}

\* a subscriber, active or canceled, is about to be checked for a feature
InitFeature ==
  /\ now = 0
  /\ org_created = TRUE
  /\ history = <<>>
  /\ last = Answer("create_checkout_session", None, "ok")
  /\ deliveries = [d \in Deliveries |-> NoDelivery]
  /\ usage = NoRow
  /\ callers = [c \in Callers |-> NoCall]
  /\ sweepers = [s \in Sweepers |-> NoSweep]
  /\ notifications = <<>>
  /\ ledger = <<>>
  /\ stored = NoStored
  /\ \E plan \in Plans, st \in {ACTIVE, CANCELED}, f \in FeatureRows, feature \in CheckedFeatures :
       /\ org = [OrgOfPlan(plan) EXCEPT !.subscription_status = st,
                                        !.is_subscription_active = (st = ACTIVE)]
       /\ check = [pc |-> "called", plan |-> plan, plan_features |-> f,
                   resource_type |-> feature, current |-> 0, result |-> UnknownResource]

\* what a feature check leaves alone
FeatureIdle == UNCHANGED <<race_vars, ledger_vars, usage_vars, sweep_vars>>

ViewChecksFeature == CheckFeature("check_feature_available") /\ FeatureIdle

MiddlewareChecksFeature == CheckFeature("_check_feature_available") /\ FeatureIdle

DecoratorChecksFeature == CheckFeature("requires_plan_feature") /\ FeatureIdle

NextFeature ==
  \/ ViewChecksFeature
  \/ MiddlewareChecksFeature
  \/ DecoratorChecksFeature

SpecFeature == InitFeature /\ [][NextFeature]_vars

\* ------------------------------------------- the subscription access checks
\* the days a trial or a subscription ends on, if any
EndDays == {NoTime, 1}

\* an organization in any state of its status, plan, flag and end dates is
\* about to be checked, before or after the end dates
InitAccess ==
  /\ org_created = TRUE
  /\ history = <<>>
  /\ last = Answer("create_checkout_session", None, "ok")
  /\ deliveries = [d \in Deliveries |-> NoDelivery]
  /\ usage = NoRow
  /\ callers = [c \in Callers |-> NoCall]
  /\ sweepers = [s \in Sweepers |-> NoSweep]
  /\ notifications = <<>>
  /\ ledger = <<>>
  /\ stored = NoStored
  /\ now \in {0, 2}
  /\ \E plan \in {FREE_TRIAL, BASIC_MONTHLY}, st \in SubscriptionStatus, active \in BOOLEAN,
        trial_end \in EndDays, subscription_end \in EndDays :
       org = [OrgOfPlan(plan) EXCEPT !.subscription_status = st,
                                     !.is_subscription_active = active,
                                     !.trial_ends_at = trial_end,
                                     !.subscription_ends_at = subscription_end]
  /\ check = [NoCheck EXCEPT !.pc = "called"]

ViewChecksAccess == DecideAccess("check_subscription_active") /\ FeatureIdle

CoreMiddlewareChecksAccess == DecideAccess("core.SubscriptionAccessMiddleware") /\ FeatureIdle

CommonMiddlewareChecksAccess == DecideAccess("common.SubscriptionAccessMiddleware") /\ FeatureIdle

DecoratorChecksAccess == DecideAccess("requires_active_subscription") /\ FeatureIdle

NextAccess ==
  \/ ViewChecksAccess
  \/ CoreMiddlewareChecksAccess
  \/ CommonMiddlewareChecksAccess
  \/ DecoratorChecksAccess

SpecAccess == InitAccess /\ [][NextAccess]_vars

\* ------------------------------------------------------ requests at the gate
\* a subscriber with no usage row of the month yet
InitGate ==
  /\ now = 0
  /\ org_created = TRUE
  /\ org = Subscribed.org
  /\ history = Subscribed.rows
  /\ last = Answer("stripe_webhook", SubscriptionEvent.id, "success")
  /\ deliveries = [d \in Deliveries |-> NoDelivery]
  /\ usage = NoRow
  /\ callers = [c \in Callers |-> NoCall]
  /\ sweepers = [s \in Sweepers |-> NoSweep]
  /\ notifications = <<>>
  /\ ledger = <<>>
  /\ stored = NoStored
  /\ check = NoCheck

\* the campaigns the organization has: none yet, and as many as its plan allows
CampaignCounts == {0, org.campaigns_limit}

\* the subscribed contacts a campaign is sent to
RecipientCounts == {1, 2}

\* the counters stay within MaxUsage
UsageWithinBound ==
  /\ usage'.campaigns_created <= MaxUsage
  /\ usage'.emails_sent <= MaxUsage
  /\ usage'.contacts_imported <= MaxUsage

\* the contacts the organization has: none yet, and as many as its plan allows
ContactCounts == {0, org.contacts_limit}

CampaignPost ==
  /\ \E n \in CampaignCounts, created \in BOOLEAN : CreateCampaign(n, created)
  /\ UsageWithinBound
  /\ UNCHANGED <<race_vars, ledger_vars, check_vars, sweep_vars>>

CampaignSend ==
  /\ \E n \in CampaignCounts, draft \in BOOLEAN, r \in RecipientCounts : SendCampaign(n, draft, r)
  /\ UsageWithinBound
  /\ UNCHANGED <<race_vars, ledger_vars, check_vars, sweep_vars>>

ContactPost ==
  /\ \E n \in ContactCounts, created \in BOOLEAN : CreateContact(n, created)
  /\ UsageWithinBound
  /\ UNCHANGED <<race_vars, ledger_vars, check_vars, sweep_vars>>

NextGate ==
  \/ CampaignPost
  \/ CampaignSend
  \/ ContactPost

SpecGate == InitGate /\ [][NextGate]_vars

\* --------------------------------------------------- sweeps at the same time
\* an organization that signed up on day 0 and stays on its trial
TrialOrganization ==
  [OrganizationDefaults EXCEPT !.trial_ends_at = SignupData(0).trial_ends_at]

InitSweep ==
  /\ now = 0
  /\ org_created = TRUE
  /\ org = TrialOrganization
  /\ history = <<>>
  /\ last = Answer("create_organization", None, "created")
  /\ deliveries = [d \in Deliveries |-> NoDelivery]
  /\ usage = NoRow
  /\ callers = [c \in Callers |-> NoCall]
  /\ sweepers = [s \in Sweepers |-> NoSweep]
  /\ notifications = <<>>
  /\ ledger = <<>>
  /\ stored = NoStored
  /\ check = NoCheck

\* what an invocation of the sweep leaves alone
SweepIdle == UNCHANGED <<now, org_created, history, last, race_vars, ledger_vars, usage_vars, check_vars>>

SweepStarts == (\E s \in Sweepers : StartSweep(s)) /\ SweepIdle

SweepSelects == (\E s \in Sweepers : SelectForReminder(s)) /\ SweepIdle

SweepChecksRecent == (\E s \in Sweepers : CheckRecentReminder(s)) /\ SweepIdle

SweepReminds == (\E s \in Sweepers : SendReminder(s)) /\ SweepIdle

SweepSelectsExpired == (\E s \in Sweepers : SelectExpired(s)) /\ SweepIdle

SweepSaves == (\E s \in Sweepers : SaveExpired(s)) /\ SweepIdle

SweepNotifies == (\E s \in Sweepers : NotifyExpired(s)) /\ SweepIdle

\* a day passes, up to the last day of the sweeps
SweepDay ==
  /\ now < SweepDays
  /\ Tick
  /\ UNCHANGED <<race_vars, ledger_vars, usage_vars, check_vars, sweep_vars>>

\* the scheduler and the task queue start the sweep when they will, a run may
\* start while another is under way, and the days pass
NextSweep ==
  \/ SweepStarts
  \/ SweepSelects
  \/ SweepChecksRecent
  \/ SweepReminds
  \/ SweepSelectsExpired
  \/ SweepSaves
  \/ SweepNotifies
  \/ SweepDay

SpecSweep == InitSweep /\ [][NextSweep]_vars

\* ------------------------------------------------- the usage-warning sweeps
InitWarn == InitSweep

\* the sizes of the contacts and campaigns tables when a run counts them:
\* below the band, and at two places inside it
ContactTotals == {0, (org.contacts_limit * 9) \div 10, (org.contacts_limit * 95) \div 100}

CampaignTotals == {0, (org.campaigns_limit * 9) \div 10}

\* the task queue runs the task every six hours
WarningTask ==
  /\ \E contact_count \in ContactTotals, campaign_count \in CampaignTotals :
       SendUsageLimitWarnings(contact_count, campaign_count)
  /\ Len(notifications') <= MaxWarnings
  /\ UNCHANGED <<race_vars, ledger_vars, check_vars>>

\* the scheduler runs its command every six hours
WarningCommand ==
  /\ SchedulerCheckUsageLimits
  /\ UNCHANGED <<race_vars, ledger_vars, check_vars>>

WarnDay ==
  /\ now < WarnDays
  /\ Tick
  /\ UNCHANGED <<race_vars, ledger_vars, usage_vars, check_vars, sweep_vars>>

NextWarn ==
  \/ WarningTask
  \/ WarningCommand
  \/ WarnDay

SpecWarn == InitWarn /\ [][NextWarn]_vars

\* ------------------------------------------------------------------ claims
\* the SubscriptionHistory rows that carry the event id
RowsOfEvent(h, event_id) == {i \in 1..Len(h) : h[i].stripe_event_id = event_id}

\* C1: a signed delivery of an event id that a SubscriptionHistory row already
\* carries is answered 'duplicate', leaves the organization row as it is and
\* appends no history row, so that exactly one row carries the event id
C1_DuplicateDeliveryIsNoOp ==
  [][(/\ now' = now
      /\ last'.op = "stripe_webhook"
      /\ last'.resp # "invalid_signature"
      /\ RowsOfEvent(history, last'.id) # {})
     => /\ last'.resp = "duplicate"
        /\ org' = org
        /\ history' = history
        /\ Cardinality(RowsOfEvent(history', last'.id)) = 1]_vars

\* an applied delivery was delivered again and answered 'duplicate'
C1_Witness ==
  /\ last.op = "stripe_webhook" /\ last.resp = "duplicate"
  /\ Len(history) = 1
  /\ history[1].stripe_event_id = last.id
  /\ history[1].stripe_event_id \in EventIds
  /\ org.subscription_status = ACTIVE

\* the state is one in which a failed invoice holds the organization in its
\* grace window: past due, still marked active, the deadline not reached
InGraceWindow(o, t) ==
  /\ o.subscription_status = PAST_DUE
  /\ o.is_subscription_active
  /\ o.subscription_ends_at # NoTime
  /\ t < o.subscription_ends_at

\* C4: after invoice.payment_failed is applied to an active organization,
\* check_subscription_active answers true on every day before the grace
\* deadline, and the sweep that runs after the deadline marks the organization
\* inactive
C4_PastDueInGraceIsActive ==
  [][/\ InGraceWindow(org', now') => check_subscription_active(org', now')
     /\ (/\ last'.op = "check_subscription_expirations"
         /\ now' = now
         /\ org.subscription_status = PAST_DUE
         /\ org.is_subscription_active
         /\ org.subscription_ends_at # NoTime
         /\ now > org.subscription_ends_at)
        => ~org'.is_subscription_active]_vars

\* the limits PLAN_CONFIG declares for the plan of the row; PLAN_CONFIG declares
\* no emails-per-month limit, the row keeps the default of its field
LimitsMatchCatalog(o) ==
  /\ o.subscription_plan \in Plans
  /\ o.contacts_limit = PLAN_CONFIG[o.subscription_plan].contacts_limit
  /\ o.campaigns_limit = PLAN_CONFIG[o.subscription_plan].campaigns_limit
  /\ o.emails_per_month_limit = DEFAULT_EMAILS_LIMIT

\* C6: in every state the organization's limit fields are those PLAN_CONFIG
\* declares for its current plan
C6_LimitsMatchPlan == org_created => LimitsMatchCatalog(org)

\* C7: an organization is created in status trialing on the trial plan, marked
\* active, its trial ending 14 days after the creation and its limits those of
\* the trial plan, with and without a trial_ends_at from the creator
C7_CreatedOnTrial ==
  [][(~org_created /\ org_created')
     => /\ org'.subscription_status = "trialing"
        /\ org'.subscription_plan = "free_trial"
        /\ org'.is_subscription_active
        /\ org'.trial_ends_at = now + 14
        /\ LimitsMatchCatalog(org')]_vars

\* the plan whose catalog entry carries the price
PlanOfPrice(price_id) == CHOOSE p \in Plans : PLAN_CONFIG[p].stripe_price_id = price_id

\* C8: a subscription-created event with a catalog price, delivered for a
\* trialing organization, makes the status active, the plan the one the price
\* belongs to and the limits that plan's, and appends one row of type
\* 'created' that carries the event id
C8_CreatedEventActivates ==
  [][(/\ last'.op = "stripe_webhook"
      /\ org_created
      /\ org.subscription_status = "trialing")
     => \A ev \in CreatedEvents(now) :
          (/\ ev.price \in CatalogPrices
           /\ org.stripe_customer_id = ev.customer
           /\ RowsOfEvent(history, ev.id) = {}
           /\ StripeWebhook(ev, TRUE, TRUE))
          => /\ org'.subscription_status = "active"
             /\ org'.subscription_plan = PlanOfPrice(ev.price)
             /\ org'.contacts_limit = PLAN_CONFIG[PlanOfPrice(ev.price)].contacts_limit
             /\ org'.campaigns_limit = PLAN_CONFIG[PlanOfPrice(ev.price)].campaigns_limit
             /\ Len(history') = Len(history) + 1
             /\ history'[Len(history')].event_type = "created"
             /\ history'[Len(history')].stripe_event_id = ev.id
             /\ Cardinality(RowsOfEvent(history', ev.id)) = 1]_vars

\* a subscription-created event for the premium yearly price was applied
C8_Witness ==
  /\ Len(history) = 1
  /\ last = Answer("stripe_webhook", history[1].stripe_event_id, "success")
  /\ history[1].event_type = "created"
  /\ history[1].stripe_event_id \in EventIds
  /\ org.subscription_plan = PREMIUM_YEARLY
  /\ org.subscription_status = ACTIVE
  /\ org.contacts_limit = 100000

\* C9: an invoice.payment_failed event applied to an active organization makes
\* its status past_due, and an invoice.payment_succeeded event for the same
\* subscription applied after it makes the status active again
C9_FailedThenSucceeded ==
  [][(/\ last'.op = "stripe_webhook"
      /\ last'.resp = "success"
      /\ now' = now
      /\ org.stripe_subscription_id # None)
     => /\ \A ev \in FailedEventsOf(BillingEventIds, now) :
             (/\ ev.subscription = org.stripe_subscription_id
              /\ org.subscription_status = "active"
              /\ RowsOfEvent(history, ev.id) = {}
              /\ StripeWebhook(ev, TRUE, TRUE))
             => org'.subscription_status = "past_due"
        /\ \A ev \in SucceededEventsOf(BillingEventIds, now) :
             (/\ ev.subscription = org.stripe_subscription_id
              /\ org.subscription_status = "past_due"
              /\ RowsOfEvent(history, ev.id) = {}
              /\ StripeWebhook(ev, TRUE, TRUE))
             => org'.subscription_status = "active"]_vars

\* the invoice of an active subscriber failed and was then paid
C9_Witness ==
  /\ Len(history) = 3
  /\ history[2].event_type = "payment_failed"
  /\ history[3].event_type = "payment_succeeded"
  /\ history[3].stripe_event_id # history[2].stripe_event_id
  /\ last = Answer("stripe_webhook", history[3].stripe_event_id, "success")
  /\ org.subscription_status = ACTIVE

\* C10: a cancellation at the period end of an active organization sets
\* cancel_at_period_end and leaves the status active, and the sweep that runs
\* after the period end has passed puts the organization on the trial plan with
\* a trial that ends after the day of the sweep
C10_CancelThenSweepResets ==
  [][/\ (/\ last'.op \in {"manage_subscription", "cancel_subscription"}
         /\ last'.resp = "ok"
         /\ now' = now
         /\ org.subscription_status = "active"
         /\ org.is_subscription_active
         /\ ~org.cancel_at_period_end
         /\ org'.is_subscription_active)
        => /\ org'.cancel_at_period_end
           /\ org'.subscription_status = "active"
     /\ (/\ last'.op = "check_subscription_expirations"
         /\ now' = now
         /\ org.cancel_at_period_end
         /\ org.subscription_status = "active"
         /\ org.is_subscription_active
         /\ org.current_period_end # NoTime
         /\ now > org.current_period_end)
        => /\ org'.subscription_plan = "free_trial"
           /\ org'.trial_ends_at > now]_vars

\* C2: of the deliveries of one event id that the server handles at the same
\* time, at most one saves the organization
C2_OneDeliveryMutates ==
  \A d1 \in Deliveries, d2 \in Deliveries :
    (/\ d1 # d2
     /\ deliveries[d1].ev.id = deliveries[d2].ev.id
     /\ deliveries[d1].saved)
    => ~deliveries[d2].saved

\* C3: under every interleaving the month's emails_sent is the number of
\* finished update_usage_tracking(org, 'emails', 1) calls, so that N calls
\* against a month with no row leave it at N
C3_NoLostIncrement ==
  /\ usage.emails_sent =
       Cardinality({c \in Callers : callers[c].pc = "done" /\ callers[c].resource_type = "emails"})
  /\ (\E c \in Callers : callers[c].pc \in {"update", "done"}) => usage.exists

\* every caller has incremented the emails of a month that had no row
C3_Witness ==
  /\ \A c \in Callers : callers[c].pc = "done" /\ callers[c].resource_type = "emails"
  /\ usage.exists
  /\ usage.emails_sent = NumCallers

\* C5: for campaigns, contacts, emails, templates and domains, on every plan,
\* the answer of check_usage_limit that carries a limit has allowed false when
\* the current count is the limit and allowed true when it is one less
C5_AllowedBelowLimitOnly ==
  (/\ check.pc = "done"
   /\ check.resource_type \in {"campaigns", "contacts", "emails", "templates", "domains"}
   /\ check.result.limit # NoLimit)
  => /\ check.current = check.result.limit => ~check.result.allowed
     /\ check.current = check.result.limit - 1 => check.result.allowed

\* a pro organization with three domains asked for one more
C5_Witness ==
  /\ check.pc = "done"
  /\ check.resource_type = "domains"
  /\ check.plan = PRO_MONTHLY
  /\ check.current = 3
  /\ check.result.limit = 3
  /\ ~check.result.allowed

C12_BadSignatureWritesNothing ==
  [][\A ev \in DeletedEvents(now) :
       StripeWebhook(ev, FALSE, TRUE)
       => /\ HttpStatus(last'.resp) \in 400..499
          /\ org' = org
          /\ org_created' = org_created
          /\ history' = history]_vars

\* a customer.subscription.deleted delivery for the subscription of an active
\* subscriber was rejected for its signature
C12_Witness ==
  /\ last = Answer("stripe_webhook", None, "invalid_signature")
  /\ org_created
  /\ org.stripe_subscription_id \in SubscriptionIds
  /\ org.subscription_status = ACTIVE
  /\ org.subscription_plan # FREE_TRIAL

\* C13: a customer.subscription.created or customer.subscription.updated
\* delivery whose price reference is not in the plan catalog leaves every field
\* of the organization's row as it was
C13_UnknownPriceChangesNothing ==
  [][\A ev \in CreatedEvents(now) \cup UpdatedEvents(now) :
       (/\ get_plan_from_price_id(ev.price) = None
        /\ StripeWebhook(ev, TRUE, TRUE))
       => org' = org]_vars

\* C14: in every state the organization's status is one of trialing, active,
\* past_due and canceled
C14_StatusInEnum == org_created => org.subscription_status \in SubscriptionStatus

\* the expiry timestamp the entitlement checks go by is in the past: the end
\* of the trial on the trial plan, the end of the subscription on the others
ExpiryPassed(o, t) ==
  IF o.subscription_plan = FREE_TRIAL
  THEN o.trial_ends_at # NoTime /\ o.trial_ends_at < t
  ELSE o.subscription_ends_at # NoTime /\ o.subscription_ends_at < t

\* C15: whenever the organization's status is canceled, and whenever its
\* expiry timestamp is in the past, check_subscription_active answers false
\* and the middleware on the request path does not let the request through
C15_GatesDenyCanceledAndExpired ==
  (org_created /\ (org.subscription_status = CANCELED \/ ExpiryPassed(org, now)))
  => /\ ~check_subscription_active(org, now)
     /\ ~SubscriptionAccessAllows(org, now)

\* the monthly counters of the usage row
Counters(u) == <<u.emails_sent, u.campaigns_created, u.contacts_imported>>

\* C16: a request the gate denies, and a request the gate lets through that
\* fails afterwards, leave every usage counter as it was
C16_GateLeavesCounters ==
  [][/\ \A n \in CampaignCounts, created \in BOOLEAN :
          (CreateCampaign(n, created) /\ last'.resp # "created")
          => Counters(usage') = Counters(usage)
     /\ \A n \in CampaignCounts, draft \in BOOLEAN, r \in RecipientCounts :
          (SendCampaign(n, draft, r) /\ last'.resp # "queued")
          => Counters(usage') = Counters(usage)
     /\ \A n \in ContactCounts, created \in BOOLEAN :
          (CreateContact(n, created) /\ last'.resp # "created")
          => Counters(usage') = Counters(usage)]_vars

\* the fields of the organization a management action is about
ManagedFields(o) ==
  <<o.subscription_plan, o.contacts_limit, o.campaigns_limit, o.emails_per_month_limit,
    o.subscription_status, o.is_subscription_active, o.cancel_at_period_end,
    o.current_period_end, o.subscription_ends_at>>

\* C17: an upgrade, downgrade, cancel or resume whose call to Stripe fails
\* leaves the organization's plan, limits, status, active flag,
\* cancel_at_period_end and period end as they were and appends no
\* SubscriptionHistory row
C17_FailedRemoteCallWritesNothing ==
  [][/\ \A a \in {"upgrade", "downgrade"}, p \in RequestPlans :
          ManageSubscription(a, p, FALSE, FALSE)
          => /\ ManagedFields(org') = ManagedFields(org)
             /\ history' = history
     /\ \A a \in {"cancel", "resume"}, i \in BOOLEAN :
          ManageSubscription(a, None, i, FALSE)
          => /\ ManagedFields(org') = ManagedFields(org)
             /\ history' = history
     /\ CancelSubscription(FALSE)
        => /\ ManagedFields(org') = ManagedFields(org)
           /\ history' = history]_vars

\* a management action of a subscriber was answered with Stripe's error
C17_Witness ==
  /\ last = Answer("manage_subscription", None, "stripe_error")
  /\ org.stripe_subscription_id # None
  /\ org.subscription_status = ACTIVE
  /\ ~org.cancel_at_period_end
  /\ Len(history) >= 1

\* the organization is on a paid plan, its subscription end is before t and
\* it is marked active
ExpiredSubscriptionActive(o, t) ==
  /\ o.subscription_plan # FREE_TRIAL
  /\ o.subscription_ends_at # NoTime /\ o.subscription_ends_at < t
  /\ o.is_subscription_active

\* the organization is on the trial plan, its trial end is before t and it is
\* marked active
ExpiredTrialActive(o, t) ==
  /\ o.subscription_plan = FREE_TRIAL
  /\ o.trial_ends_at # NoTime /\ o.trial_ends_at < t
  /\ o.is_subscription_active

\* C18: when a run of a subscription-expiry sweep has completed on day t the
\* organization is not a paid one with its subscription end before t and still
\* marked active, and when a run of the trial-expiry sweep has completed it is
\* not a trial one with its trial end before t and still marked active
C18_SweepLeavesNoExpiredActive ==
  [][/\ (CheckSubscriptionExpirations \/ SchedulerCheckSubscriptionExpirations)
        => ~ExpiredSubscriptionActive(org', now)
     /\ CheckTrialExpirations => ~ExpiredTrialActive(org', now)]_vars

\* the rows of one notification type
RowsOfType(rows, type) == {i \in 1..Len(rows) : rows[i].notification_type = type}

\* C19: however the runs of the expiry sweep follow or overlap one another,
\* the organization ends as one run leaves it (inactive and canceled, nothing
\* else changed) and the expiry notification goes out no more often than in
\* one run, that is once.
C19_SweepTwiceAsOnce ==
  /\ Cardinality(RowsOfType(notifications, SUBSCRIPTION_CANCELED)) <= 1
  /\ RowsOfType(notifications, SUBSCRIPTION_CANCELED) # {} =>
       org = [TrialOrganization EXCEPT !.is_subscription_active = FALSE,
                                       !.subscription_status = CANCELED]

\* C20: for each threshold, no two trial-ending reminders of the organization
\* are created less than a day apart, whether the runs of the sweep follow one
\* another, overlap or start again.
C20_OneReminderPerThresholdPerDay ==
  \A i, j \in RowsOfType(notifications, TRIAL_ENDING) :
    (i < j /\ notifications[i].days_remaining = notifications[j].days_remaining)
      => notifications[j].created_at - notifications[i].created_at >= 1

\* C21: of one resource type, no two limit warnings of the organization are
\* created within the 48 hours of the deduplication window, however often the
\* usage-warning sweeps run while the organization is in the warning band.
C21_OneWarningPerResourcePerWindow ==
  \A i, j \in RowsOfType(notifications, LIMIT_WARNING) :
    (i < j /\ notifications[i].resource = notifications[j].resource)
      => notifications[j].created_at - notifications[i].created_at >= 2

\* C22: a step that changes the organization's plan or status appends one
\* SubscriptionHistory row, whose old plan and old status are the values
\* before the step and whose new plan and new status are the values after it.
C22_EveryChangeIsLogged ==
  [][(/\ org_created /\ org_created'
      /\ \/ org'.subscription_plan # org.subscription_plan
         \/ org'.subscription_status # org.subscription_status)
     => /\ Len(history') = Len(history) + 1
        /\ history'[Len(history')].old_plan = org.subscription_plan
        /\ history'[Len(history')].old_status = org.subscription_status
        /\ history'[Len(history')].new_plan = org'.subscription_plan
        /\ history'[Len(history')].new_status = org'.subscription_status]_vars

\* C23: a SubscriptionHistory row that was written stays in the table with
\* every field as it was written.
C23_HistoryRowsImmutable ==
  [][/\ Len(history') >= Len(history)
     /\ \A i \in 1..Len(history) : history'[i] = history[i]]_vars

\* C24: when a webhook delivery has saved the organization and written its
\* SubscriptionHistory row, the notification call that follows leaves both as
\* they are and the delivery is answered 'success', whether the notification
\* was delivered or failed.
C24_NotificationFailureKeepsChange ==
  [][\A d \in Deliveries :
       (deliveries[d].pc = "notify" /\ deliveries'[d].pc = "done")
         => /\ org' = org
            /\ history' = history
            /\ RowsOfEvent(history', deliveries[d].ev.id) # {}
            /\ deliveries'[d].resp = "success"]_vars

C24_Witness ==
  \E d \in Deliveries :
    /\ deliveries[d].pc = "done"
    /\ deliveries[d].notification = "failed"
    /\ deliveries[d].saved
    /\ deliveries[d].resp = "success"
    /\ RowsOfEvent(history, deliveries[d].ev.id) # {}

\* C25: a cancel action with the immediate flag that Stripe accepted leaves
\* the organization with the status canceled and with check_subscription_active
\* answering false.
C25_ImmediateCancelRevokes ==
  [][ManageSubscription("cancel", None, TRUE, TRUE)
       => /\ org'.subscription_status = CANCELED
          /\ ~check_subscription_active(org', now')]_vars

\* C26: an upgrade or downgrade that Stripe accepted leaves the status as it
\* was; with the immediate flag it sets the limits of the new plan, without
\* the flag it leaves the limits of the old plan in place.
C26_LimitsFollowImmediateFlag ==
  [][\A a \in {"upgrade", "downgrade"}, p \in RequestPlans, i \in BOOLEAN :
       (ManageSubscription(a, p, i, TRUE) /\ last'.resp = "ok")
         => /\ org'.subscription_status = org.subscription_status
            /\ i => /\ org'.contacts_limit = PLAN_CONFIG[p].contacts_limit
                    /\ org'.campaigns_limit = PLAN_CONFIG[p].campaigns_limit
            /\ ~i => /\ org'.contacts_limit = org.contacts_limit
                     /\ org'.campaigns_limit = org.campaigns_limit]_vars

\* C27: a customer.subscription.created event that is applied to an
\* organization on its trial leaves trial_ends_at unset and current_period_end
\* at the value the event carries.
C27_CreatedClearsTrial ==
  [][\A ev \in CreatedEvents(now) :
       (/\ org.subscription_plan = FREE_TRIAL
        /\ StripeWebhook(ev, TRUE, TRUE)
        /\ Len(history') = Len(history) + 1)
         => /\ org'.trial_ends_at = NoTime
            /\ org'.current_period_end = ev.current_period_end]_vars

\* C28: an invoice.payment_failed event that is applied never leaves
\* subscription_ends_at earlier than it was: the new value is at least the
\* time of the event plus the grace window, and at least the value before.
C28_GraceNeverShortens ==
  [][\A ev \in FailedEvents(now) :
       (/\ StripeWebhook(ev, TRUE, TRUE)
        /\ Len(history') = Len(history) + 1)
         => /\ org'.subscription_ends_at # NoTime
            /\ org'.subscription_ends_at >= org.subscription_ends_at
            /\ org.subscription_ends_at = NoTime
                 => org'.subscription_ends_at = now + GRACE_DAYS]_vars

\* the smallest limit a plan has for a resource
SmallestLimit(resource_type) ==
  CASE resource_type = "campaigns" ->
         CHOOSE l \in {PLAN_CONFIG[p].campaigns_limit : p \in Plans} :
           \A q \in Plans : l <= PLAN_CONFIG[q].campaigns_limit
    [] resource_type = "contacts" ->
         CHOOSE l \in {PLAN_CONFIG[p].contacts_limit : p \in Plans} :
           \A q \in Plans : l <= PLAN_CONFIG[q].contacts_limit
    [] resource_type = "templates" -> 10
    [] resource_type = "domains" -> 1

\* C30: when the plan of the organization has no PlanFeatures row,
\* check_usage_limit applies to campaigns, contacts, templates and domains a
\* limit that is no larger than the smallest limit a plan has for the resource.
C30_MissingPlanMostRestrictive ==
  (/\ check.pc = "done"
   /\ ~check.plan_features.exists
   /\ check.resource_type \in {"campaigns", "contacts", "templates", "domains"})
    => /\ check.result.limit # NoLimit
       /\ check.result.limit <= SmallestLimit(check.resource_type)

\* C29: for an organization with an active subscription whose plan has no
\* PlanFeatures row, each of the feature checks answers true for the basic
\* features (email campaigns, basic analytics) and false for every other one.
C29_MissingPlanBasicFeatures ==
  (/\ check.pc = "done"
   /\ last.op \in {"check_feature_available", "_check_feature_available",
                   "requires_plan_feature"}
   /\ ~check.plan_features.exists
   /\ check_subscription_active(org, now))
    => check.result.allowed = (check.resource_type \in BasicFeatures)

\* the six event types the endpoint handles
HandledTypes ==
  {"customer.subscription.created", "customer.subscription.updated",
   "customer.subscription.deleted", "invoice.payment_succeeded", "invoice.payment_failed",
   "customer.subscription.trial_will_end"}

\* the event names a customer or subscription that no organization has
NamesMissingOrganization(exists, o, ev) ==
  /\ ev.type \in HandledTypes
  /\ IF ev.type = "customer.subscription.created"
     THEN ~FoundByCustomer(exists, o, ev.customer)
     ELSE ev.subscription # None /\ ~FoundBySubscription(exists, o, ev.subscription)

UnhandledEvents(t) == {ev \in OtherEvents(t) : ev.type \notin HandledTypes}

\* C32: a signed delivery of an event whose type is none of the six handled
\* ones is answered 'success' (HTTP 200) and leaves the organization, the
\* history and the usage row as they are, the first time and every time after.
C32_UnhandledTypeIsIgnored ==
  [][\A ev \in UnhandledEvents(now) :
       (/\ last'.id = ev.id
        /\ ~EventAlreadyLogged(history, ev.id)
        /\ StripeWebhook(ev, TRUE, TRUE))
         => /\ org' = org
            /\ org_created' = org_created
            /\ history' = history
            /\ usage' = usage
            /\ last'.resp = "success"
            /\ HttpStatus(last'.resp) = 200]_vars

\* a delivery was answered 'success' and left no history row, for an
\* organization that has a subscription and a history
C32_Witness ==
  /\ org_created
  /\ org.stripe_subscription_id = "sub_1"
  /\ last.op = "stripe_webhook"
  /\ last.resp = "success"
  /\ last.id \in EventIds
  /\ RowsOfEvent(history, last.id) = {}
  /\ Len(history) >= 1

\* C33: when a customer.subscription.created or customer.subscription.updated
\* event is applied and leaves the organization on a paid plan, the timestamp
\* that check_subscription_active and the expiry sweep compare with the clock,
\* subscription_ends_at, is the period end the event carries.
C33_PeriodEndIsAuthoritative ==
  [][\A ev \in CreatedEvents(now) \cup UpdatedEvents(now) :
       (/\ StripeWebhook(ev, TRUE, TRUE)
        /\ Len(history') = Len(history) + 1
        /\ org'.subscription_plan # FREE_TRIAL)
         => org'.subscription_ends_at = ev.current_period_end]_vars

\* the calls that are past their get_or_create
PastGetOrCreate == {c \in Callers : callers[c].pc \in {"update", "done"}}

\* the finished update_usage_tracking calls for a resource type
DoneCalls(resource_type) ==
  {c \in Callers : callers[c].pc = "done" /\ callers[c].resource_type = resource_type}

\* C34: under every interleaving of update_usage_tracking and
\* get_current_usage calls in a month that had no row, the month never has
\* more than one row and has one as soon as a call is past its get_or_create,
\* the row of the month before stays as it was, and the month's counters are
\* the numbers of finished increments, the first one included.
C34_OneRowPerMonth ==
  /\ Cardinality(RowsOfMonth(ledger, MonthStart(now))) <= 1
  /\ PastGetOrCreate # {} => Cardinality(RowsOfMonth(ledger, MonthStart(now))) = 1
  /\ Len(ledger) >= 1 /\ ledger[1] = LastMonthRow
  /\ \A i \in RowsOfMonth(ledger, MonthStart(now)) :
       /\ ledger[i].emails_sent = Cardinality(DoneCalls("emails"))
       /\ ledger[i].campaigns_created = Cardinality(DoneCalls("campaigns"))

\* every call has finished, two of them increments of the same counter, and one
\* of them had lost the race for the insert
C34_Witness ==
  /\ \A c \in Callers : callers[c].pc = "done"
  /\ Cardinality(DoneCalls("emails")) >= 2
  /\ Len(ledger) = 2
  /\ ledger[2].emails_sent = Cardinality(DoneCalls("emails"))

\* C35: when an invoice.payment_succeeded event is applied to an organization
\* that an invoice.payment_failed event had put past due, the subscription
\* active check answers true at every time from then to the end of the paid
\* period, the times after the grace deadline included.
C35_RecoveryEndsGrace ==
  [][\A ev \in SucceededEventsOf(BillingEventIds, now) :
       (/\ last'.id = ev.id
        /\ org.subscription_status = PAST_DUE
        /\ history[Len(history)].event_type = EV_PAYMENT_FAILED
        /\ now <= org.current_period_end
        /\ StripeWebhook(ev, TRUE, TRUE)
        /\ Len(history') = Len(history) + 1)
         => \A t \in now..org'.current_period_end :
              check_subscription_active(org', t)]_vars

\* C36: an organization on the free trial plan is never active or past due: no
\* payment event for the subscription that ended, delivered after
\* customer.subscription.deleted, changes the status of the organization.
C36_FreeTrialNeverActive ==
  org.subscription_plan = FREE_TRIAL => org.subscription_status \notin {ACTIVE, PAST_DUE}

\* C37: the cached flag agrees with the status: whenever subscription_status
\* is canceled, is_subscription_active is false, after every sequence of
\* webhook events, management actions, create_subscription calls and sweeps.
C37_CanceledIsInactive ==
  org.subscription_status = CANCELED => ~org.is_subscription_active

\* the organization after the handler of one event and then the handler of
\* another ran on the subscriber's row, one after the other
SerialOutcome(first, second) ==
  Dispatch(TRUE, Dispatch(TRUE, Subscribed.org, first, now, TRUE).org, second, now, TRUE).org

\* C38: when the requests for two events of an organization have both saved
\* it, the row is the one that the two handlers leave when one runs after the
\* other, in one of the two orders: no value saved by one is reverted by the
\* other saving the row it had loaded before.
C38_InterleavingIsSerial ==
  \A d1 \in Deliveries, d2 \in Deliveries :
    (/\ d1 # d2
     /\ deliveries[d1].saved /\ deliveries[d2].saved
     /\ deliveries[d1].ev.id # deliveries[d2].ev.id)
    => org \in {SerialOutcome(deliveries[d1].ev, deliveries[d2].ev),
                SerialOutcome(deliveries[d2].ev, deliveries[d1].ev)}

\* C39: every place that decides on the subscription gives the answer of
\* check_subscription_active, whatever the status, plan, flag and end dates of
\* the organization and whatever the time.
C39_DecisionPointsAgree ==
  check.pc = "done" => check.result.allowed = check_subscription_active(org, now)

\* C40: with the plan unchanged, the organization never has more contacts
\* than contacts_limit nor more campaigns than campaigns_limit, however the
\* create requests, each asking check_usage_limit before it creates, are
\* interleaved.
C40_StoredWithinLimits ==
  /\ stored.contacts <= org.contacts_limit
  /\ stored.campaigns <= org.campaigns_limit

====
